---- MODULE Spec2Model ----
(***************************************************************************)
(* Job orchestration pipeline of the TikTok scraper/downloader:            *)
(* request boundary (app/main.py, app/bot.py), scrape consumer and         *)
(* download tasks (app/worker.py), downloader (app/downloader.py), state   *)
(* store access layer (app/redis_client.py), delivery consumer             *)
(* (app/bot.py) and the unified Video Source (app/scraper_unified.py).     *)
(*                                                                         *)
(* Every coroutine is a process with a program counter; one action is one  *)
(* stretch of code between two awaits that touch shared store data.        *)
(* Python strings are sequences of tokens, so that formatting, matching    *)
(* and splitting are computed and not assumed.                             *)
(***************************************************************************)
EXTENDS Integers, Sequences, FiniteSets, TLC

\* ------------------------------------------------------------------ bounds
MaxJobs == 2       \* jobs the request boundary creates
MaxVideos == 2     \* videos one scrape returns
MaxTasks == 2      \* download-queue entries over all jobs
MaxPending == 2    \* SpecDeliver: initial length of a pending delivery queue
MaxSignals == 3    \* SpecDeliver: initial length of the flush signal queue
BatchN == 12       \* SpecBatch: videos of the job
BodyBytes == 2     \* bytes of a video body

\* ------------------------------------------------------- program constants
MaxConcurrentDownloads == 3
FlushThreshold == 5
BatchCount == 5

JobName == <<"j1", "j2", "j3", "j4">>
JobIds == {JobName[n] : n \in 1..MaxJobs}
VidName == <<"v1", "v2", "v3", "v4", "v5", "v6", "v7", "v8", "v9", "v10", "v11", "v12",
             "v13", "v14">>
Videos == {VidName[1], VidName[2]}      \* what the Video Source lists in Spec
BatchVideos == {VidName[i] : i \in 1..BatchN}
Usernames == {"u1"}
Chats == {"c1", "c2"}
NoChat == "nochat"
NoPath == <<>>

\* ------------------------------------------------------------ Python strings
Q1 == "'"
Q2 == "\""

Contains(s, p) ==
  \E i \in 1..(Len(s) - Len(p) + 1) : SubSeq(s, i, i + Len(p) - 1) = p

\* repr() of a str value: single quotes around the text
PyReprStr(s) == <<Q1>> \o s \o <<Q1>>

\* str() of the dict {"status": status, **kwargs}; kwargs is a sequence of
\* <<key, repr of the value>> pairs
RECURSIVE PyItems(_)
PyItems(kw) ==
  IF kw = <<>> THEN <<>>
  ELSE <<", ">> \o PyReprStr(<<kw[1][1]>>) \o <<": ">> \o kw[1][2] \o PyItems(Tail(kw))

PyDictStr(status, kw) ==
  <<"{">> \o PyReprStr(<<"status">>) \o <<": ">> \o PyReprStr(<<status>>) \o PyItems(kw) \o <<"}">>

\* the status a stored download record carries (7th token of the dict text)
DlStatus(rec) == IF rec = <<>> THEN "queued" ELSE rec[7]

\* the text get_job_stats looks for in a stored download record
StatsPattern(status) == <<Q2, "status", Q2, ": ", Q2, status, Q2>>

\* str(filepath) of download_path / username / f"{video_id}.mp4"
FilePath(username, video_id) == <<"downloads/", username, "/", video_id, ".mp4">>
PathsOf(V) == {FilePath(u, v) : u \in Usernames, v \in V}

\* f"{a}:{b}" and its split(":", 1)
JoinColon(a, b) == a \o <<":">> \o b
SplitColon(e) ==
  LET i == CHOOSE k \in 1..Len(e) : e[k] = ":" /\ \A m \in 1..(k - 1) : e[m] # ":"
  IN <<SubSeq(e, 1, i - 1), SubSeq(e, i + 1, Len(e))>>

\* a push at the end that (b)rpop takes from
LPush_AtRight(q, x) == q \o <<x>>

\* redis list primitives: lpush adds at the left end, (b)rpop takes the right end
LPush(q, x) == <<x>> \o q
RPeek(q) == q[Len(q)]
RPop(q) == SubSeq(q, 1, Len(q) - 1)
Reverse(q) == [i \in 1..Len(q) |-> q[Len(q) + 1 - i]]

\* ------------------------------------------------------------- Video Source
MsgPwDetection == <<"tiktok", "bot", "detection:", "empty", "response">>
MsgPwZeroVideos == <<"tiktok", "bot", "detection:", "tiktok", "returned", "0 videos">>
MsgPwOther == <<"user", "not", "found">>
MsgHttpError == <<"client", "error", "404">>
MsgTypeError == <<"unsupported", "operand", "type(s)">>
HelpfulMsg == <<"tiktok", "detected", "bot", "activity.", "please", "add", "tiktok_cookie">>

RECURSIVE SeqsUpTo(_, _)
SeqsUpTo(S, n) ==
  IF n = 0 THEN {<<>>}
  ELSE LET shorter == SeqsUpTo(S, n - 1)
       IN shorter \cup {Append(s, x) : s \in shorter, x \in S}

NoDup(s) == \A i, k \in 1..Len(s) : i # k => s[i] # s[k]
VideoLists == {s \in SeqsUpTo(Videos, MaxVideos) : NoDup(s)}

\* outcome of one call of the Playwright variant, after its own retries; it
\* never returns an empty list (scraper.py raises on zero videos)
PwVideoOutcomes ==
  {[kind |-> "ok", videos |-> l, msg |-> <<>>] : l \in VideoLists \ {<<>>}}
  \cup {[kind |-> "error", videos |-> <<>>, msg |-> m] :
          m \in {MsgPwDetection, MsgPwZeroVideos, MsgPwOther}}
\* outcome of one call of the HTTP variant; zero videos is returned as []
HttpVideoOutcomes ==
  {[kind |-> "ok", videos |-> l, msg |-> <<>>] : l \in VideoLists}
  \cup {[kind |-> "error", videos |-> <<>>, msg |-> MsgHttpError]}
PwProfileOutcomes ==
  {[kind |-> "ok", videos |-> <<>>, msg |-> <<>>]}
  \cup {[kind |-> "error", videos |-> <<>>, msg |-> m] : m \in {MsgPwDetection, MsgPwOther}}
HttpProfileOutcomes ==
  {[kind |-> "ok", videos |-> <<>>, msg |-> <<>>],
   [kind |-> "error", videos |-> <<>>, msg |-> MsgHttpError]}

BlockKeywords ==
  {<<"empty", "response">>, <<"blocked">>, <<"captcha">>, <<"bot">>, <<"timeout">>,
   <<"connection">>, <<"not", "available">>, <<"could", "not", "fetch">>,
   <<"after", "retries">>, <<"detecting", "you">>}
is_blocked(msg) == \E kw \in BlockKeywords : Contains(msg, kw)

\* a fallback that takes every Playwright error for a blocking one
try_with_fallback_AnyError(method, pw, http) ==
  IF method = "http" THEN [method |-> "http", out |-> http, called |-> <<"http">>]
  ELSE IF pw.kind = "ok" THEN [method |-> method, out |-> pw, called |-> <<"playwright">>]
  ELSE [method |-> "http", out |-> http, called |-> <<"playwright", "http">>]

\* UnifiedTikTokScraper._try_with_fallback: the outcome, the variant that is
\* active afterwards and the variants that were called
try_with_fallback(method, pw, http) ==
  IF method = "http" THEN [method |-> "http", out |-> http, called |-> <<"http">>]
  ELSE IF pw.kind = "ok" THEN [method |-> method, out |-> pw, called |-> <<"playwright">>]
  ELSE IF is_blocked(pw.msg)
  THEN [method |-> "http", out |-> http, called |-> <<"playwright", "http">>]
  ELSE [method |-> method, out |-> pw, called |-> <<"playwright">>]

\* the message scrape_worker stores for a failed scrape
WorkerErrorMsg(msg) ==
  IF Contains(msg, <<"bot">>) \/ Contains(msg, <<"empty", "response">>)
  THEN HelpfulMsg ELSE msg

\* ---------------------------------------------------------------- state
VARIABLES
  jobs,               \* hash job:{id}      : the job records
  job_queue,          \* list job_queue
  job_videos,         \* hash job:{id}:videos : the VideoTasks recorded
  video_username,     \* hash job:{id}:videos : the "username" of the entries
  download_queue,     \* list download_queue
  downloads,          \* hash job:{id}:downloads : video_id -> str(dict)
  pending_videos,     \* list job:{id}:pending_videos
  send_videos_queue,  \* list send_videos_queue (flush signals)
  job_chat_mapping,   \* hash job_chat_mapping
  sent_videos,        \* set user:{chat}:sent_videos
  downloaded_videos,  \* set downloaded_videos
  video_files,        \* hash video_files
  files,              \* the download directory: path -> "none" | "empty" | "partial" |
                      \* "full" | "zero" (closed with the no bytes of an empty body)
  created,            \* number of jobs created so far
  job_to_chat,        \* handle_username between its POST and its hset
  current_method,     \* UnifiedTikTokScraper.current_method
  sw,                 \* scrape_worker: position and locals
  task_pc,            \* process_download tasks: position
  task_loc,           \* process_download tasks: locals
  waiters,            \* tasks created, not yet past the semaphore
  bw,                 \* video_sender_worker / send_videos_batch: position and locals
  fetches,            \* history: GET requests issued per video_id
  src_failed,         \* history: the Video Source raised while the job was scraped
  src_zero,           \* history: the Video Source returned zero videos for the job
  send_count,         \* history: send_video invocations per (chat, video)
  flushes,            \* history: per job, the flushes: <<size, kind of its signal>>
  summaries,          \* history: per job, the summaries sent: <<sent, skipped>>
  notices,            \* history: per job, how its failure notification ended
  queue_log,          \* history: the entries of download_queue in the order they
                      \* were pushed (enq) and in the order they were popped (deq)
  running,            \* Worker.running
  shutdown,           \* the shutdown requests made, the consumers that were inside
                      \* their blocking pop then, and (history) the pops made since
  signal_kinds,       \* history: what pushed each entry of send_videos_queue
  unified,            \* UnifiedTikTokScraper: http_scraper, and (history) the
                      \* variants its operations called
  retry,              \* TikTokScraper: the call being retried, its retry_count
  cache               \* VideoCache: the cache file of one user, and the last call

storeVars == <<jobs, job_queue, job_videos, video_username, download_queue, downloads, pending_videos,
               send_videos_queue, job_chat_mapping, sent_videos, downloaded_videos,
               video_files>>
taskVars == <<task_pc, task_loc, waiters>>
histVars == <<fetches, src_failed, src_zero, send_count, flushes, summaries, notices,
             signal_kinds>>
auxVars == <<unified, retry, cache>>
vars == <<storeVars, files, created, job_to_chat, current_method, sw, taskVars, bw,
          histVars, running, shutdown, queue_log, auxVars>>

\* the video ids of the run, and the tasks the dispatcher can create
VideoIds == DOMAIN video_files
Tasks == DOMAIN task_pc

NoJob == [status |-> "absent", username |-> "", max_videos |-> 0, total_videos |-> 0,
          downloaded_videos |-> 0, failed_videos |-> 0, error |-> <<>>]
SwIdle == [pc |-> "get_next_job", job_id |-> "", username |-> "", max_videos |-> 0,
           videos |-> <<>>, total |-> 0]
NoLoc == [username |-> "", filepath |-> NoPath, total_size |-> 0, downloaded |-> 0,
          completed |-> 0, failed |-> 0, permit |-> FALSE]
BwIdle == [pc |-> "brpop", job_id |-> "", chat_id |-> NoChat, batch |-> <<>>,
           size |-> 0, sent_count |-> 0, skipped_count |-> 0]

EmptyStore(V) ==
  /\ jobs = [j \in JobIds |-> NoJob]
  /\ job_queue = <<>>
  /\ job_videos = [j \in JobIds |-> {}]
  /\ video_username = [j \in JobIds |-> ""]
  /\ download_queue = <<>>
  /\ downloads = [j \in JobIds |-> [v \in V |-> <<>>]]
  /\ pending_videos = [j \in JobIds |-> <<>>]
  /\ send_videos_queue = <<>>
  /\ job_chat_mapping = [j \in JobIds |-> NoChat]
  /\ sent_videos = [c \in Chats |-> {}]
  /\ downloaded_videos = {}
  /\ video_files = [v \in V |-> NoPath]

\* the queue consumers and the process each runs in
Consumers == {"scrape", "download", "delivery"}
ProcessOf(c) == IF c = "delivery" THEN "bot" ELSE "worker"
NoShutdown == [requested |-> {}, in_pop |-> {}, late |-> [c \in Consumers |-> 0]]

\* the loop test of a consumer of the worker, "while self.running", passes, or
\* the consumer was already inside its brpop when stop() cleared the flag
CanPop(c) == running \/ c \in shutdown.in_pop

\* a blocking pop of consumer c returns an item
NotePop(c) ==
  shutdown' = [shutdown EXCEPT
                 !.in_pop = @ \ {c},
                 !.late[c] = IF ProcessOf(c) \in shutdown.requested THEN @ + 1 ELSE @]

\* no operation of the Video Source variants or of the cache has run
UnifiedIdle == [http_scraper |-> "none", log |-> <<>>]
RetryIdle == [pc |-> "idle", op |-> "", retry_count |-> 0, attempts |-> 0,
              errors |-> <<>>, raised |-> <<>>]
CacheEmpty == [video_ids |-> <<>>, total_videos |-> 0, before |-> <<>>, ids |-> <<>>,
               returned |-> 0, calls |-> 0]
NoAux ==
  /\ unified = UnifiedIdle
  /\ retry = RetryIdle
  /\ cache = CacheEmpty

NoRecord(V) ==
  /\ running = TRUE
  /\ shutdown = NoShutdown
  /\ fetches = [v \in V |-> 0]
  /\ src_failed = [j \in JobIds |-> FALSE]
  /\ src_zero = [j \in JobIds |-> FALSE]
  /\ send_count = [c \in Chats |-> [v \in V |-> 0]]
  /\ flushes = [j \in JobIds |-> <<>>]
  /\ summaries = [j \in JobIds |-> <<>>]
  /\ notices = [j \in JobIds |-> <<>>]
  /\ queue_log = [enq |-> Reverse(download_queue), deq |-> <<>>]
  /\ signal_kinds = <<>>

NoHistory(V) ==
  /\ NoAux
  /\ NoRecord(V)

Init ==
  /\ EmptyStore(Videos)
  /\ NoHistory(Videos)
  /\ files = [p \in PathsOf(Videos) |-> "none"]
  /\ created = 0
  /\ job_to_chat = [j \in JobIds |-> NoChat]
  /\ current_method \in {"playwright", "http"}
  /\ sw = SwIdle
  /\ task_pc = [t \in JobIds \X Videos |-> "none"]
  /\ task_loc = [t \in JobIds \X Videos |-> NoLoc]
  /\ waiters = <<>>
  /\ bw = BwIdle

\* ------------------------------------------------------ store access layer
update_job(J, job_id, updates) ==
  [J EXCEPT ![job_id] = [f \in DOMAIN NoJob |->
     IF f \in DOMAIN updates THEN updates[f]
     ELSE IF J[job_id].status = "absent" THEN NoJob[f] ELSE J[job_id][f]]]

\* RedisClient.add_job: hset of the record, then lpush on job_queue; max_videos
\* 0 stands for "all" (main.scrape_user stores str(request.max_videos or "all"))
add_job(job_id, username, max_videos) ==
  /\ jobs' = [jobs EXCEPT ![job_id] =
       [NoJob EXCEPT !.status = "pending", !.username = username,
                     !.max_videos = max_videos]]
  /\ job_queue' = LPush(job_queue, job_id)

update_download_status(D, job_id, video_id, status, kw) ==
  [D EXCEPT ![job_id][video_id] = PyDictStr(status, kw)]

\* RedisClient.get_job_stats: counts by text match on the stored records
get_job_stats(job_id) ==
  LET recs == {v \in DOMAIN downloads[job_id] : downloads[job_id][v] # <<>>}
      completed == Cardinality({v \in recs :
                      Contains(downloads[job_id][v], StatsPattern("completed"))})
      failed == Cardinality({v \in recs :
                      Contains(downloads[job_id][v], StatsPattern("failed"))})
  IN [total |-> Cardinality(recs), completed |-> completed, failed |-> failed,
      in_progress |-> Cardinality(recs) - completed - failed]

\* ------------------------------------------------------- request boundary
\* POST /scrape (main.scrape_user): a client that is not the bot, with
\* request.max_videos taken from M
scrape_user_with(M) ==
  /\ created < MaxJobs
  /\ \E u \in Usernames, max_videos \in M : add_job(JobName[created + 1], u, max_videos)
  /\ created' = created + 1
  /\ UNCHANGED <<job_videos, video_username, download_queue, downloads, pending_videos,
                 send_videos_queue, job_chat_mapping, sent_videos, downloaded_videos,
                 video_files, files, job_to_chat, current_method, sw, taskVars, auxVars, running, shutdown, queue_log, bw,
                 histVars>>

\* a request that leaves max_videos unset
scrape_user == scrape_user_with({0})

\* TikTokBot.handle_username, up to the response of POST /scrape
handle_username_post ==
  /\ created < MaxJobs
  /\ \E u \in Usernames, c \in Chats :
       /\ add_job(JobName[created + 1], u, 0)
       /\ job_to_chat' = [job_to_chat EXCEPT ![JobName[created + 1]] = c]
  /\ created' = created + 1
  /\ UNCHANGED <<job_videos, video_username, download_queue, downloads, pending_videos,
                 send_videos_queue, job_chat_mapping, sent_videos, downloaded_videos,
                 video_files, files, current_method, sw, taskVars, auxVars, running, shutdown, queue_log, bw, histVars>>

\* TikTokBot.handle_username: hset job_chat_mapping
handle_username_map ==
  \E j \in JobIds :
    /\ job_to_chat[j] # NoChat
    /\ job_chat_mapping[j] = NoChat
    /\ job_chat_mapping' = [job_chat_mapping EXCEPT ![j] = job_to_chat[j]]
    /\ UNCHANGED <<jobs, job_queue, job_videos, video_username, download_queue, downloads,
                   pending_videos, send_videos_queue, sent_videos, downloaded_videos,
                   video_files, files, created, job_to_chat, current_method, sw,
                   taskVars, auxVars, running, shutdown, queue_log, bw, histVars>>

\* ---------------------------------------------------------- scrape_worker
swBase == <<auxVars, job_videos, video_username, download_queue, downloads, pending_videos,
            send_videos_queue, job_chat_mapping, sent_videos, downloaded_videos,
            video_files, files, created, job_to_chat, taskVars, bw, fetches,
            send_count, flushes, summaries, signal_kinds, running, queue_log>>
swCore == <<swBase, notices>>
swRest == <<swCore, shutdown>>

\* while self.running; get_next_job: brpop job_queue
sw_get_next_job ==
  /\ sw.pc = "get_next_job"
  /\ CanPop("scrape")
  /\ job_queue # <<>>
  /\ NotePop("scrape")
  /\ sw' = [sw EXCEPT !.pc = "set_scraping", !.job_id = RPeek(job_queue)]
  /\ job_queue' = RPop(job_queue)
  /\ UNCHANGED <<jobs, current_method, src_failed, src_zero, swCore>>

\* get_job, then update_job(status = scraping)
sw_set_scraping ==
  /\ sw.pc = "set_scraping"
  /\ jobs' = update_job(jobs, sw.job_id, [status |-> "scraping"])
  /\ sw' = [sw EXCEPT !.pc = "get_user_profile",
                      !.username = jobs[sw.job_id].username,
                      !.max_videos = jobs[sw.job_id].max_videos]
  /\ UNCHANGED <<job_queue, current_method, src_failed, src_zero, swRest>>

\* a handler that records the failure without its message
ScrapeFailed_NoError(J, job_id, msg) ==
  update_job(J, job_id, [status |-> "failed"])

\* the except branch of the scrape: update_job(status = failed, error)
ScrapeFailed(J, job_id, msg) ==
  update_job(J, job_id, [status |-> "failed", error |-> WorkerErrorMsg(msg)])

\* scraper.get_user_profile returns or raises
sw_get_user_profile ==
  /\ sw.pc = "get_user_profile"
  /\ \E pw \in PwProfileOutcomes, http \in HttpProfileOutcomes :
       LET r == try_with_fallback(current_method, pw, http) IN
         /\ current_method' = r.method
         /\ IF r.out.kind = "ok"
            THEN /\ sw' = [sw EXCEPT !.pc = "scrape_user_videos"]
                 /\ UNCHANGED <<jobs, src_failed>>
            ELSE /\ jobs' = ScrapeFailed(jobs, sw.job_id, r.out.msg)
                 /\ src_failed' = [src_failed EXCEPT ![sw.job_id] = TRUE]
                 /\ sw' = [sw EXCEPT !.pc = "notify"]
  /\ UNCHANGED <<job_queue, src_zero, swRest>>

TasksRecorded == Cardinality({t \in Tasks : t[2] \in job_videos[t[1]]})

\* both variants stop appending once max_videos is set and the count has
\* reached it (scraper.py:185, scraper_http.py:634): the list they return
stop_at_max(l, max_videos) ==
  IF max_videos = 0 \/ Len(l) = 0 THEN l
  ELSE IF max_videos <= 1 THEN SubSeq(l, 1, 1)
  ELSE SubSeq(l, 1, IF Len(l) <= max_videos THEN Len(l) ELSE max_videos)

\* scraper.scrape_user_videos returns the list or raises; Pw and Http are the
\* outcomes of the two variants before the max_videos cut
scrape_user_videos_from(Pw, Http) ==
  /\ sw.pc = "scrape_user_videos"
  /\ \E pw \in Pw, http \in Http :
       LET r == try_with_fallback(current_method, pw, http)
           videos == stop_at_max(r.out.videos, sw.max_videos)
       IN
         /\ current_method' = r.method
         /\ IF r.out.kind = "ok"
            THEN /\ TasksRecorded + Len(videos) <= MaxTasks
                 /\ sw' = [sw EXCEPT !.pc = "add_videos", !.videos = videos,
                                     !.total = Len(videos)]
                 /\ src_zero' = [src_zero EXCEPT ![sw.job_id] = (videos = <<>>)]
                 /\ UNCHANGED <<jobs, src_failed>>
            ELSE /\ jobs' = ScrapeFailed(jobs, sw.job_id, r.out.msg)
                 /\ src_failed' = [src_failed EXCEPT ![sw.job_id] = TRUE]
                 /\ sw' = [sw EXCEPT !.pc = "notify"]
                 /\ UNCHANGED src_zero
  /\ UNCHANGED <<job_queue, swRest>>

\* the scrape of a profile whose listing names every video once
sw_scrape_user_videos == scrape_user_videos_from(PwVideoOutcomes, HttpVideoOutcomes)

\* RedisClient.add_video_to_download for the next video of the list
sw_add_video_to_download ==
  /\ sw.pc = "add_videos"
  /\ sw.videos # <<>>
  /\ LET video_id == Head(sw.videos) IN
       /\ job_videos' = [job_videos EXCEPT ![sw.job_id] = @ \cup {video_id}]
       /\ video_username' = [video_username EXCEPT ![sw.job_id] = sw.username]
       /\ download_queue' = LPush(download_queue, JoinColon(<<sw.job_id>>, <<video_id>>))
       /\ queue_log' = [queue_log EXCEPT
                          !.enq = Append(@, JoinColon(<<sw.job_id>>, <<video_id>>))]
  /\ sw' = [sw EXCEPT !.videos = Tail(sw.videos)]
  /\ UNCHANGED <<jobs, job_queue, downloads, pending_videos, send_videos_queue,
                 job_chat_mapping, sent_videos, downloaded_videos, video_files, files,
                 created, job_to_chat, current_method, taskVars, auxVars, running, shutdown, bw, histVars>>

\* a total taken from what is left of the list after the loop
sw_set_downloading_Remaining ==
  /\ sw.pc = "add_videos"
  /\ sw.videos = <<>>
  /\ jobs' = update_job(jobs, sw.job_id,
       [status |-> "downloading", total_videos |-> Len(sw.videos)])
  /\ sw' = SwIdle
  /\ UNCHANGED <<job_queue, current_method, src_failed, src_zero, swRest>>

\* update_job(status = downloading, total_videos = len(videos))
sw_set_downloading ==
  /\ sw.pc = "add_videos"
  /\ sw.videos = <<>>
  /\ jobs' = update_job(jobs, sw.job_id,
       [status |-> "downloading", total_videos |-> sw.total])
  /\ sw' = SwIdle
  /\ UNCHANGED <<job_queue, current_method, src_failed, src_zero, swRest>>

\* how the notification ends: hget job_chat_mapping raises; no chat is mapped
\* and nothing is sent; send_message raises; the message is sent
NotifyOutcome(job_id, fault) ==
  IF fault = "lookup" THEN "lookup_raised"
  ELSE IF job_chat_mapping[job_id] = NoChat THEN "no_chat"
  ELSE IF fault = "send" THEN "send_raised"
  ELSE "sent"

\* the scrape consumer in the sleep(5) of its outer except
SwSleep == [SwIdle EXCEPT !.pc = "sleep"]

\* a notification whose exceptions reach the outer except of the loop
notify_with_Uncaught(Faults) ==
  /\ sw.pc = "notify"
  /\ \E fault \in Faults :
       LET outcome == NotifyOutcome(sw.job_id, fault) IN
         /\ notices' = [notices EXCEPT ![sw.job_id] = Append(@, outcome)]
         /\ sw' = IF outcome \in {"lookup_raised", "send_raised"} THEN SwSleep ELSE SwIdle
  /\ UNCHANGED <<jobs, job_queue, current_method, src_failed, src_zero, swBase, shutdown>>

\* best-effort notification of the failed scrape: hget job_chat_mapping and
\* send_message inside try / except Exception, which logs; then the loop test
notify_with(Faults) ==
  /\ sw.pc = "notify"
  /\ \E fault \in Faults :
       notices' = [notices EXCEPT ![sw.job_id] =
                     Append(@, NotifyOutcome(sw.job_id, fault))]
  /\ sw' = SwIdle
  /\ UNCHANGED <<jobs, job_queue, current_method, src_failed, src_zero, swBase, shutdown>>

\* the notification when neither the State Store nor the Notifier raises
sw_notify == notify_with({"none"})

scrape_worker ==
  \/ sw_get_next_job
  \/ sw_set_scraping
  \/ sw_get_user_profile
  \/ sw_scrape_user_videos
  \/ sw_add_video_to_download
  \/ sw_set_downloading
  \/ sw_notify

\* -------------------------------------------------------- download_worker
pdCore == <<auxVars, job_queue, job_videos, video_username, job_chat_mapping, sent_videos,
            created, job_to_chat, current_method, sw, bw, src_failed, src_zero,
            send_count, flushes, summaries, notices, running>>
pdFixed == <<pdCore, shutdown, queue_log>>

\* lpush send_videos_queue
Signal(job_id, kind) ==
  /\ send_videos_queue' = LPush(send_videos_queue, job_id)
  /\ signal_kinds' = LPush(signal_kinds, kind)

\* tasks past "async with semaphore" and not yet out of it
InFlight == {t \in Tasks : task_pc[t] \notin {"none", "waiting", "done"}}

\* the permits of the semaphore that are taken: one per task that entered
\* "async with semaphore" and has not left it
PermitsHeld == Cardinality({t \in Tasks : task_loc[t].permit})

\* a dispatcher that pops at the end the entries are pushed at
download_worker_LeftPop ==
  /\ CanPop("download")
  /\ download_queue # <<>>
  /\ NotePop("download")
  /\ LET e == SplitColon(Head(download_queue))
         t == <<e[1][1], e[2][1]>>
     IN /\ task_pc[t] = "none"
        /\ task_pc' = [task_pc EXCEPT ![t] = "waiting"]
        /\ waiters' = Append(waiters, t)
  /\ queue_log' = [queue_log EXCEPT !.deq = Append(@, Head(download_queue))]
  /\ download_queue' = Tail(download_queue)
  /\ UNCHANGED <<pdCore, jobs, downloads, pending_videos, send_videos_queue,
                 signal_kinds, downloaded_videos, video_files, files, task_loc, fetches>>

\* while self.running; get_next_download (brpop download_queue, split) and
\* create_task
download_worker ==
  /\ CanPop("download")
  /\ download_queue # <<>>
  /\ NotePop("download")
  /\ LET e == SplitColon(RPeek(download_queue))
         t == <<e[1][1], e[2][1]>>
     IN /\ task_pc[t] = "none"
        /\ task_pc' = [task_pc EXCEPT ![t] = "waiting"]
        /\ waiters' = Append(waiters, t)
  /\ queue_log' = [queue_log EXCEPT !.deq = Append(@, RPeek(download_queue))]
  /\ download_queue' = RPop(download_queue)
  /\ UNCHANGED <<pdCore, jobs, downloads, pending_videos, send_videos_queue,
                 signal_kinds, downloaded_videos, video_files, files, task_loc, fetches>>

\* ------------------------------------------------------- process_download
Goto(t, pc) == task_pc' = [task_pc EXCEPT ![t] = pc]

\* a task end that keeps the permit
Finish_KeepPermit(t) ==
  /\ task_pc' = [task_pc EXCEPT ![t] = "done"]
  /\ task_loc' = [task_loc EXCEPT ![t] = [NoLoc EXCEPT !.permit = TRUE]]

\* the end of "async with semaphore": the task is over, its permit is back
Finish(t) ==
  /\ task_pc' = [task_pc EXCEPT ![t] = "done"]
  /\ task_loc' = [task_loc EXCEPT ![t] = NoLoc]

\* the except branch: update_download_status(failed, error = str(e))
DownloadFailed(D, t, msg) ==
  update_download_status(D, t[1], t[2], "failed", << <<"error", PyReprStr(msg)>> >>)

\* a task start that does not wait for a permit
pd_start_NoLimit ==
  /\ waiters # <<>>
  /\ LET t == Head(waiters) IN
       /\ waiters' = Tail(waiters)
       /\ IF t[2] \in job_videos[t[1]]
          THEN /\ Goto(t, "is_video_downloaded")
               /\ task_loc' = [task_loc EXCEPT ![t].username = video_username[t[1]],
                                            ![t].permit = TRUE]
          ELSE /\ Goto(t, "done")
               /\ UNCHANGED task_loc
  /\ UNCHANGED <<pdFixed, jobs, download_queue, downloads, pending_videos,
                 send_videos_queue, signal_kinds, downloaded_videos, video_files, files,
                 fetches>>

\* a permit acquired and never given back when the task ends
pd_start_NoRelease ==
  /\ waiters # <<>>
  /\ Cardinality({t \in Tasks : task_pc[t] \notin {"none", "waiting"}})
       < MaxConcurrentDownloads
  /\ LET t == Head(waiters) IN
       /\ waiters' = Tail(waiters)
       /\ IF t[2] \in job_videos[t[1]]
          THEN /\ Goto(t, "is_video_downloaded")
               /\ task_loc' = [task_loc EXCEPT ![t].username = video_username[t[1]],
                                            ![t].permit = TRUE]
          ELSE /\ Goto(t, "done")
               /\ UNCHANGED task_loc
  /\ UNCHANGED <<pdFixed, jobs, download_queue, downloads, pending_videos,
                 send_videos_queue, signal_kinds, downloaded_videos, video_files, files, fetches>>

\* async with semaphore, then hgetall job:{id}:videos
pd_start ==
  /\ waiters # <<>>
  /\ PermitsHeld < MaxConcurrentDownloads
  /\ LET t == Head(waiters) IN
       /\ waiters' = Tail(waiters)
       /\ IF t[2] \in job_videos[t[1]]
          THEN /\ Goto(t, "is_video_downloaded")
               /\ task_loc' = [task_loc EXCEPT ![t].username = video_username[t[1]],
                                            ![t].permit = TRUE]
          ELSE /\ Goto(t, "done")
               /\ UNCHANGED task_loc
  /\ UNCHANGED <<pdFixed, jobs, download_queue, downloads, pending_videos,
                 send_videos_queue, signal_kinds, downloaded_videos, video_files, files, fetches>>

\* is_video_downloaded: sismember downloaded_videos
pd_is_video_downloaded(t) ==
  /\ task_pc[t] = "is_video_downloaded"
  /\ IF t[2] \in downloaded_videos
     THEN Goto(t, "get_video_filepath")
     ELSE Goto(t, "set_downloading")
  /\ UNCHANGED <<pdFixed, jobs, download_queue, downloads, pending_videos,
                 send_videos_queue, signal_kinds, downloaded_videos, video_files, files, task_loc,
                 waiters, fetches>>

\* get_video_filepath: hget video_files; no path falls through to the download
pd_get_video_filepath(t) ==
  /\ task_pc[t] = "get_video_filepath"
  /\ IF video_files[t[2]] = NoPath
     THEN Goto(t, "set_downloading") /\ UNCHANGED task_loc
     ELSE /\ Goto(t, "reuse_completed")
          /\ task_loc' = [task_loc EXCEPT ![t].filepath = video_files[t[2]]]
  /\ UNCHANGED <<pdFixed, jobs, download_queue, downloads, pending_videos,
                 send_videos_queue, signal_kinds, downloaded_videos, video_files, files, waiters,
                 fetches>>

\* update_download_status(completed, progress = 100, file_path, reused = True)
pd_reuse_completed(t) ==
  /\ task_pc[t] = "reuse_completed"
  /\ downloads' = update_download_status(downloads, t[1], t[2], "completed",
       << <<"progress", <<"100">> >>,
          <<"file_path", PyReprStr(task_loc[t].filepath)>>,
          <<"reused", <<"True">> >> >>)
  /\ Goto(t, "add_pending_video")
  /\ UNCHANGED <<pdFixed, jobs, download_queue, pending_videos, send_videos_queue,
                 signal_kinds, downloaded_videos, video_files, files, task_loc, waiters, fetches>>

\* update_download_status(downloading, progress = 0)
pd_set_downloading(t) ==
  /\ task_pc[t] = "set_downloading"
  /\ downloads' = update_download_status(downloads, t[1], t[2], "downloading",
       << <<"progress", <<"0">> >> >>)
  /\ Goto(t, "download_video")
  /\ UNCHANGED <<pdFixed, jobs, download_queue, pending_videos, send_videos_queue,
                 signal_kinds, downloaded_videos, video_files, files, task_loc, waiters, fetches>>

\* VideoDownloader.download_video up to the response of the GET: a username
\* of None has no directory (download_path / None raises); an existing file is
\* returned as it is; otherwise the request is sent, and either it
\* fails (raise_for_status, transport error) or the file is opened for writing
dv_request_with(t, Lengths) ==
  /\ task_pc[t] = "download_video"
  /\ LET path == FilePath(task_loc[t].username, t[2]) IN
       IF task_loc[t].username = ""
       THEN /\ downloads' = DownloadFailed(downloads, t, MsgTypeError)
            /\ Finish(t)
            /\ UNCHANGED <<files, fetches>>
       ELSE IF files[path] # "none"
       THEN /\ task_loc' = [task_loc EXCEPT ![t].filepath = path]
            /\ Goto(t, "mark_sadd")
            /\ UNCHANGED <<files, fetches, downloads>>
       ELSE /\ fetches' = [fetches EXCEPT ![t[2]] = @ + 1]
            /\ \/ /\ files' = [files EXCEPT ![path] = "empty"]
                  /\ \E total_size \in Lengths :
                       task_loc' = [task_loc EXCEPT ![t].filepath = path,
                                                    ![t].total_size = total_size,
                                                    ![t].downloaded = 0]
                  /\ Goto(t, "stream")
                  /\ UNCHANGED downloads
               \/ /\ downloads' = DownloadFailed(downloads, t, MsgHttpError)
                  /\ Finish(t)
                  /\ UNCHANGED files
  /\ UNCHANGED <<pdFixed, jobs, download_queue, pending_videos, send_videos_queue,
                 signal_kinds, downloaded_videos, video_files, waiters>>

\* the request of a body whose content-length header is absent (total_size
\* 0) or states the length of the body
dv_request(t) == dv_request_with(t, {0, BodyBytes})

\* int((downloaded / total_size) * 100)
progress_percent(downloaded, total_size) == (downloaded * 100) \div total_size

\* VideoDownloader.download_video, the chunk loop: a chunk is written and the
\* progress reported if total_size > 0 (the last chunk ends the loop), or the
\* stream ends without a chunk (a body of no bytes is complete as it is), or
\* it breaks and leaves the file as written so far.  Sizes are the chunk
\* lengths, MaxBody bounds the bytes of a body; Exact says that the bytes
\* iterated are as many as content-length declares (they are not when the
\* body is content-encoded: aiter_bytes yields the decoded bytes).
dv_stream_with(t, Sizes, MaxBody, Exact) ==
  /\ task_pc[t] = "stream"
  /\ LET path == task_loc[t].filepath
         total_size == task_loc[t].total_size
         limit == IF Exact /\ total_size > 0 THEN total_size ELSE MaxBody
     IN \/ /\ files[path] \in {"empty", "partial"}
           /\ \E n \in Sizes :
                LET downloaded == task_loc[t].downloaded + n IN
                  /\ downloaded <= limit
                  /\ \E last \in (IF downloaded = limit THEN {TRUE} ELSE
                                  IF Exact /\ total_size > 0 THEN {FALSE} ELSE BOOLEAN) :
                       /\ files' = [files EXCEPT ![path] = IF last THEN "full" ELSE "partial"]
                       /\ task_pc' = [task_pc EXCEPT ![t] = IF last THEN "mark_sadd" ELSE @]
                  /\ task_loc' = [task_loc EXCEPT ![t].downloaded = downloaded]
                  /\ downloads' =
                       IF total_size > 0
                       THEN update_download_status(downloads, t[1], t[2], "downloading",
                              << <<"progress",
                                   <<ToString(progress_percent(downloaded, total_size))>> >> >>)
                       ELSE downloads
        \/ /\ files[path] = "empty"
           /\ ~(Exact /\ total_size > 0)
           /\ files' = [files EXCEPT ![path] = "zero"]
           /\ Goto(t, "mark_sadd")
           /\ UNCHANGED <<downloads, task_loc>>
        \/ /\ downloads' = DownloadFailed(downloads, t, MsgHttpError)
           /\ Finish(t)
           /\ UNCHANGED files
  /\ UNCHANGED <<pdFixed, jobs, download_queue, pending_videos, send_videos_queue,
                 signal_kinds, downloaded_videos, video_files, waiters, fetches>>

\* the stream of a body of as many bytes as declared, in chunks of one or two
dv_stream(t) == dv_stream_with(t, {1, 2}, BodyBytes, TRUE)

\* mark_video_downloaded: sadd downloaded_videos
pd_mark_sadd(t) ==
  /\ task_pc[t] = "mark_sadd"
  /\ downloaded_videos' = downloaded_videos \cup {t[2]}
  /\ Goto(t, "mark_hset")
  /\ UNCHANGED <<pdFixed, jobs, download_queue, downloads, pending_videos,
                 send_videos_queue, signal_kinds, video_files, files, task_loc, waiters, fetches>>

\* mark_video_downloaded: hset video_files
pd_mark_hset(t) ==
  /\ task_pc[t] = "mark_hset"
  /\ video_files' = [video_files EXCEPT ![t[2]] = task_loc[t].filepath]
  /\ Goto(t, "set_completed")
  /\ UNCHANGED <<pdFixed, jobs, download_queue, downloads, pending_videos,
                 send_videos_queue, signal_kinds, downloaded_videos, files, task_loc, waiters,
                 fetches>>

\* update_download_status(completed, progress = 100, file_path)
pd_set_completed(t) ==
  /\ task_pc[t] = "set_completed"
  /\ downloads' = update_download_status(downloads, t[1], t[2], "completed",
       << <<"progress", <<"100">> >>,
          <<"file_path", PyReprStr(task_loc[t].filepath)>> >>)
  /\ Goto(t, "add_pending_video")
  /\ UNCHANGED <<pdFixed, jobs, download_queue, pending_videos, send_videos_queue,
                 signal_kinds, downloaded_videos, video_files, files, task_loc, waiters, fetches>>

\* add_pending_video: lpush job:{id}:pending_videos
pd_add_pending_video(t) ==
  /\ task_pc[t] = "add_pending_video"
  /\ pending_videos' = [pending_videos EXCEPT ![t[1]] =
       LPush(@, JoinColon(<<t[2]>>, task_loc[t].filepath))]
  /\ Goto(t, "pending_count")
  /\ UNCHANGED <<pdFixed, jobs, download_queue, downloads, send_videos_queue,
                 signal_kinds, downloaded_videos, video_files, files, task_loc, waiters, fetches>>

\* get_pending_video_count, and the flush signal when it is 5 or more
pd_pending_count(t) ==
  /\ task_pc[t] = "pending_count"
  /\ IF Len(pending_videos[t[1]]) >= FlushThreshold
     THEN Signal(t[1], "threshold")
     ELSE UNCHANGED <<send_videos_queue, signal_kinds>>
  /\ Goto(t, "get_job_stats")
  /\ UNCHANGED <<pdFixed, jobs, download_queue, downloads, pending_videos,
                 downloaded_videos, video_files, files, task_loc, waiters, fetches>>

\* get_job_stats
pd_get_job_stats(t) ==
  /\ task_pc[t] = "get_job_stats"
  /\ LET stats == get_job_stats(t[1]) IN
       task_loc' = [task_loc EXCEPT ![t].completed = stats.completed,
                                    ![t].failed = stats.failed]
  /\ Goto(t, "get_job")
  /\ UNCHANGED <<pdFixed, jobs, download_queue, downloads, pending_videos,
                 send_videos_queue, signal_kinds, downloaded_videos, video_files, files, waiters,
                 fetches>>

\* the completion test of process_download
AllDone(completed, failed, total) == completed + failed >= total

\* get_job and the completion test
pd_get_job(t) ==
  /\ task_pc[t] = "get_job"
  /\ IF AllDone(task_loc[t].completed, task_loc[t].failed, jobs[t[1]].total_videos)
     THEN Goto(t, "update_job") /\ UNCHANGED task_loc
     ELSE Finish(t)
  /\ UNCHANGED <<pdFixed, jobs, download_queue, downloads, pending_videos,
                 send_videos_queue, signal_kinds, downloaded_videos, video_files, files, waiters,
                 fetches>>

\* update_job(status = completed, downloaded_videos, failed_videos)
pd_update_job(t) ==
  /\ task_pc[t] = "update_job"
  /\ jobs' = update_job(jobs, t[1],
       [status |-> "completed", downloaded_videos |-> task_loc[t].completed,
        failed_videos |-> task_loc[t].failed])
  /\ Goto(t, "remaining_count")
  /\ UNCHANGED <<pdFixed, download_queue, downloads, pending_videos, send_videos_queue,
                 signal_kinds, downloaded_videos, video_files, files, task_loc, waiters, fetches>>

\* get_pending_video_count, and the final flush signal when it is not 0
pd_remaining_count(t) ==
  /\ task_pc[t] = "remaining_count"
  /\ IF Len(pending_videos[t[1]]) > 0
     THEN Signal(t[1], "final")
     ELSE UNCHANGED <<send_videos_queue, signal_kinds>>
  /\ Finish(t)
  /\ UNCHANGED <<pdFixed, jobs, download_queue, downloads, pending_videos,
                 downloaded_videos, video_files, files, waiters, fetches>>

process_download ==
  \/ pd_start
  \/ \E t \in Tasks :
       \/ pd_is_video_downloaded(t)
       \/ pd_get_video_filepath(t)
       \/ pd_reuse_completed(t)
       \/ pd_set_downloading(t)
       \/ dv_request(t)
       \/ dv_stream(t)
       \/ pd_mark_sadd(t)
       \/ pd_mark_hset(t)
       \/ pd_set_completed(t)
       \/ pd_add_pending_video(t)
       \/ pd_pending_count(t)
       \/ pd_get_job_stats(t)
       \/ pd_get_job(t)
       \/ pd_update_job(t)
       \/ pd_remaining_count(t)

\* ---------------------------------------------------- delivery (app/bot.py)
botCore == <<auxVars, jobs, job_queue, job_videos, video_username, download_queue, downloads,
             job_chat_mapping, downloaded_videos, video_files, created, job_to_chat,
             current_method, sw, taskVars, fetches, src_failed, src_zero, notices,
             running, queue_log>>
botFixed == <<botCore, shutdown>>

Min(a, b) == IF a <= b THEN a ELSE b

\* RedisClient.get_pending_videos: up to count rpops; <<the entries popped, the rest>>
get_pending_videos(q, count) ==
  LET n == Min(Len(q), count)
  IN <<[i \in 1..n |-> q[Len(q) + 1 - i]], SubSeq(q, 1, Len(q) - n)>>

\* RedisClient.is_video_sent: sismember user:{chat}:sent_videos
\* a membership test that never finds the video
is_video_sent_Never(chat_id, video_id) == FALSE

is_video_sent(chat_id, video_id) == video_id \in sent_videos[chat_id]

\* a variant that drains the pending queue before it looks up the subscriber
vsw_brpop_DrainFirst ==
  /\ bw.pc = "brpop"
  /\ send_videos_queue # <<>>
  /\ NotePop("delivery")
  /\ send_videos_queue' = RPop(send_videos_queue)
  /\ signal_kinds' = RPop(signal_kinds)
  /\ LET job_id == RPeek(send_videos_queue)
         chat_id == job_chat_mapping[job_id]
         got == get_pending_videos(pending_videos[job_id], BatchCount)
     IN /\ pending_videos' = [pending_videos EXCEPT ![job_id] = got[2]]
        /\ IF chat_id = NoChat \/ got[1] = <<>>
           THEN UNCHANGED <<bw, flushes>>
           ELSE /\ bw' = [BwIdle EXCEPT !.pc = "send", !.job_id = job_id,
                                        !.chat_id = chat_id, !.batch = got[1],
                                        !.size = Len(got[1])]
                /\ flushes' = [flushes EXCEPT ![job_id] =
                                 Append(@, <<Len(got[1]), RPeek(signal_kinds)>>)]
  /\ UNCHANGED <<botCore, sent_videos, files, send_count, summaries>>

\* video_sender_worker (while True): brpop send_videos_queue, hget
\* job_chat_mapping, and the
\* start of send_videos_batch (get_pending_videos)
vsw_brpop ==
  /\ bw.pc = "brpop"
  /\ send_videos_queue # <<>>
  /\ NotePop("delivery")
  /\ send_videos_queue' = RPop(send_videos_queue)
  /\ signal_kinds' = RPop(signal_kinds)
  /\ LET job_id == RPeek(send_videos_queue)
         chat_id == job_chat_mapping[job_id]
         got == get_pending_videos(pending_videos[job_id], BatchCount)
     IN IF chat_id = NoChat
        THEN UNCHANGED <<pending_videos, bw, flushes>>
        ELSE /\ pending_videos' = [pending_videos EXCEPT ![job_id] = got[2]]
             /\ IF got[1] = <<>>
                THEN UNCHANGED <<bw, flushes>>
                ELSE /\ bw' = [BwIdle EXCEPT !.pc = "send", !.job_id = job_id,
                                             !.chat_id = chat_id, !.batch = got[1],
                                             !.size = Len(got[1])]
                     /\ flushes' = [flushes EXCEPT ![job_id] =
                                      Append(@, <<Len(got[1]), RPeek(signal_kinds)>>)]
  /\ UNCHANGED <<botCore, sent_videos, files, send_count, summaries>>

\* a loop without the per-video handler: a failed entry ends the batch
svb_send_AbortOnFailure ==
  /\ bw.pc = "send"
  /\ bw.batch # <<>>
  /\ LET e == SplitColon(Head(bw.batch))
         video_id == e[1][1]
         filepath == e[2]
         rest == Tail(bw.batch)
     IN IF is_video_sent(bw.chat_id, video_id)
        THEN /\ bw' = [bw EXCEPT !.batch = rest, !.skipped_count = @ + 1]
             /\ UNCHANGED <<sent_videos, send_count>>
        ELSE IF files[filepath] = "none"
        THEN /\ bw' = BwIdle
             /\ UNCHANGED <<sent_videos, send_count>>
        ELSE /\ send_count' = [send_count EXCEPT ![bw.chat_id][video_id] = @ + 1]
             /\ \/ /\ sent_videos' = [sent_videos EXCEPT ![bw.chat_id] = @ \cup {video_id}]
                   /\ bw' = [bw EXCEPT !.batch = rest, !.sent_count = @ + 1]
                \/ /\ bw' = BwIdle
                   /\ UNCHANGED sent_videos
  /\ UNCHANGED <<botFixed, pending_videos, send_videos_queue, signal_kinds, files,
                 flushes, summaries>>

\* send_videos_batch, one entry of the batch: duplicate check, file check,
\* send_video, mark_video_sent
svb_send ==
  /\ bw.pc = "send"
  /\ bw.batch # <<>>
  /\ LET e == SplitColon(Head(bw.batch))
         video_id == e[1][1]
         filepath == e[2]
         rest == Tail(bw.batch)
     IN IF is_video_sent(bw.chat_id, video_id)
        THEN /\ bw' = [bw EXCEPT !.batch = rest, !.skipped_count = @ + 1]
             /\ UNCHANGED <<sent_videos, send_count>>
        ELSE IF files[filepath] = "none"
        THEN /\ bw' = [bw EXCEPT !.batch = rest]
             /\ UNCHANGED <<sent_videos, send_count>>
        ELSE /\ send_count' = [send_count EXCEPT ![bw.chat_id][video_id] = @ + 1]
             /\ \/ /\ sent_videos' = [sent_videos EXCEPT ![bw.chat_id] = @ \cup {video_id}]
                   /\ bw' = [bw EXCEPT !.batch = rest, !.sent_count = @ + 1]
                \/ /\ bw' = [bw EXCEPT !.batch = rest]
                   /\ UNCHANGED sent_videos
  /\ UNCHANGED <<botFixed, pending_videos, send_videos_queue, signal_kinds, files,
                 flushes, summaries>>

\* send_videos_batch: the summary message, sent when a video was sent or
\* skipped, and back to the brpop
svb_summary ==
  /\ bw.pc = "send"
  /\ bw.batch = <<>>
  /\ summaries' = IF bw.sent_count > 0 \/ bw.skipped_count > 0
                  THEN [summaries EXCEPT ![bw.job_id] =
                          Append(@, <<bw.sent_count, bw.skipped_count>>)]
                  ELSE summaries
  /\ bw' = BwIdle
  /\ UNCHANGED <<botFixed, pending_videos, send_videos_queue, signal_kinds, sent_videos,
                 files, send_count, flushes>>

video_sender_worker ==
  \/ vsw_brpop
  \/ svb_send
  \/ svb_summary

\* VideoDownloader.cleanup_old_downloads: a downloaded file is unlinked
cleanup_old_downloads ==
  /\ \E p \in DOMAIN files :
       /\ files[p] # "none"
       /\ files' = [files EXCEPT ![p] = "none"]
  /\ UNCHANGED <<storeVars, created, job_to_chat, current_method, sw, taskVars, auxVars, running, shutdown, queue_log, bw,
                 histVars>>

Next ==
  \/ scrape_user
  \/ scrape_worker
  \/ download_worker
  \/ process_download

Spec == Init /\ [][Next]_vars
\* ------------------------------------------------------------ SpecDeliver
\* The delivery consumer alone, started in a state the worker can leave behind:
\* two jobs in the downloading phase, their completed downloads in the pending
\* queues, flush signals queued.
DeliverJobs == {JobName[1], JobName[2]}
Range(q) == {q[i] : i \in 1..Len(q)}

CompletedRecord(path) ==
  PyDictStr("completed", << <<"progress", <<"100">> >>, <<"file_path", PyReprStr(path)>> >>)

InitDeliver ==
  /\ \E pl \in [DeliverJobs -> {l \in SeqsUpTo(Videos, MaxPending) : NoDup(l)}],
        u \in Usernames :
       LET vids(j) == IF j \in DeliverJobs THEN Range(pl[j]) ELSE {}
           all == UNION {vids(j) : j \in JobIds}
       IN /\ jobs = [j \in JobIds |->
                      IF j \in DeliverJobs
                      THEN [NoJob EXCEPT !.status = "downloading", !.username = u,
                                         !.total_videos = Len(pl[j])]
                      ELSE NoJob]
          /\ job_videos = [j \in JobIds |-> vids(j)]
          /\ video_username = [j \in JobIds |-> IF vids(j) # {} THEN u ELSE ""]
          /\ downloads = [j \in JobIds |-> [v \in Videos |->
                           IF v \in vids(j) THEN CompletedRecord(FilePath(u, v)) ELSE <<>>]]
          /\ pending_videos = [j \in JobIds |->
                                IF j \in DeliverJobs
                                THEN [i \in 1..Len(pl[j]) |->
                                        JoinColon(<<pl[j][i]>>, FilePath(u, pl[j][i]))]
                                ELSE <<>>]
          /\ downloaded_videos = all
          /\ video_files = [v \in Videos |-> IF v \in all THEN FilePath(u, v) ELSE NoPath]
          /\ files = [p \in PathsOf(Videos) |->
                       IF \E v \in all : p = FilePath(u, v) THEN "full" ELSE "none"]
          /\ task_pc = [t \in JobIds \X Videos |->
                         IF t[2] \in vids(t[1]) THEN "done" ELSE "none"]
  /\ job_queue = <<>>
  /\ download_queue = <<>>
  /\ send_videos_queue \in SeqsUpTo(DeliverJobs, MaxSignals)
  /\ signal_kinds = [i \in 1..Len(send_videos_queue) |-> "threshold"]
  /\ job_chat_mapping \in {m \in [JobIds -> Chats \cup {NoChat}] :
                             \A j \in JobIds \ DeliverJobs : m[j] = NoChat}
  /\ job_to_chat = job_chat_mapping
  /\ sent_videos = [c \in Chats |-> {}]
  /\ fetches = [v \in Videos |-> 0]
  /\ src_failed = [j \in JobIds |-> FALSE]
  /\ src_zero = [j \in JobIds |-> FALSE]
  /\ send_count = [c \in Chats |-> [v \in Videos |-> 0]]
  /\ flushes = [j \in JobIds |-> <<>>]
  /\ summaries = [j \in JobIds |-> <<>>]
  /\ notices = [j \in JobIds |-> <<>>]
  /\ queue_log = [enq |-> Reverse(download_queue), deq |-> <<>>]
  /\ NoAux
  /\ running = TRUE
  /\ shutdown = NoShutdown
  /\ created = Cardinality(DeliverJobs)
  /\ current_method \in {"playwright", "http"}
  /\ sw = SwIdle
  /\ task_loc = [t \in JobIds \X Videos |-> NoLoc]
  /\ waiters = <<>>
  /\ bw = BwIdle

NextDeliver ==
  \/ video_sender_worker
  \/ cleanup_old_downloads

SpecDeliver == InitDeliver /\ [][NextDeliver]_vars
\* -------------------------------------------------------------- SpecStore
\* The scrape consumer with a State Store and a Notifier whose calls can raise.
MsgStoreError == <<"error", "connecting", "to", "redis">>

\* get_job or update_job(scraping) raises: the outer except, sleep, next round
sw_store_error_outer ==
  /\ sw.pc = "set_scraping"
  /\ sw' = SwSleep
  /\ UNCHANGED <<jobs, job_queue, current_method, src_failed, src_zero, swRest>>

\* add_video_to_download or update_job(downloading) raises inside the scrape:
\* the inner except stores failed, or its update_job raises as well and the
\* outer except takes over
sw_store_error_in_scrape ==
  /\ sw.pc = "add_videos"
  /\ \/ UNCHANGED <<job_videos, video_username>>
     \/ /\ sw.videos # <<>>
        /\ job_videos' = [job_videos EXCEPT ![sw.job_id] = @ \cup {Head(sw.videos)}]
        /\ video_username' = [video_username EXCEPT ![sw.job_id] = sw.username]
  /\ \/ /\ jobs' = ScrapeFailed(jobs, sw.job_id, MsgStoreError)
        /\ sw' = [SwIdle EXCEPT !.pc = "notify", !.job_id = sw.job_id]
     \/ /\ sw' = SwSleep
        /\ UNCHANGED jobs
  /\ UNCHANGED <<job_queue, download_queue, downloads, pending_videos,
                 send_videos_queue, job_chat_mapping, sent_videos, downloaded_videos,
                 video_files, files, created, job_to_chat, current_method, taskVars, auxVars, running, shutdown, queue_log, bw,
                 histVars>>

\* the Video Source raises and update_job(failed) of the inner except raises
sw_store_error_in_handler ==
  /\ sw.pc \in {"get_user_profile", "scrape_user_videos"}
  /\ src_failed' = [src_failed EXCEPT ![sw.job_id] = TRUE]
  /\ sw' = SwSleep
  /\ UNCHANGED <<jobs, job_queue, current_method, src_zero, swRest>>

\* the outer except: log, asyncio.sleep(5), back to the loop test
sw_sleep ==
  /\ sw.pc = "sleep"
  /\ sw' = SwIdle
  /\ UNCHANGED <<jobs, job_queue, current_method, src_failed, src_zero, swRest>>

\* the notification when the chat lookup or the Notifier raises
sw_notify_raises == notify_with({"lookup", "send"})

NextStore ==
  \/ scrape_user
  \/ handle_username_post
  \/ handle_username_map
  \/ scrape_worker
  \/ sw_store_error_outer
  \/ sw_store_error_in_scrape
  \/ sw_store_error_in_handler
  \/ sw_sleep
  \/ sw_notify_raises

SpecStore == Init /\ [][NextStore]_vars

\* -------------------------------------------------------------- SpecBatch
\* One job of the bot with BatchN videos, from the state in which the scrape
\* consumer has just finished it.  Every fetch and every send succeeds.  The
\* schedule is one the event loop can produce: the delivery consumer runs as
\* soon as it has a signal, the dispatcher empties the download queue first,
\* a task runs from admission to its fetch and from the end of its fetch to
\* its end without another task in between, and the fetches in flight end in
\* any order.
BatchJob == JobName[1]
BatchChat == "c1"
BatchUser == "u1"

InitBatch ==
  /\ jobs = [j \in JobIds |->
              IF j = BatchJob
              THEN [NoJob EXCEPT !.status = "downloading", !.username = BatchUser,
                                 !.total_videos = BatchN]
              ELSE NoJob]
  /\ job_queue = <<>>
  /\ job_videos = [j \in JobIds |-> IF j = BatchJob THEN BatchVideos ELSE {}]
  /\ video_username = [j \in JobIds |-> IF j = BatchJob THEN BatchUser ELSE ""]
  /\ download_queue = [i \in 1..BatchN |->
                         JoinColon(<<BatchJob>>, <<VidName[BatchN + 1 - i]>>)]
  /\ downloads = [j \in JobIds |-> [v \in BatchVideos |-> <<>>]]
  /\ pending_videos = [j \in JobIds |-> <<>>]
  /\ send_videos_queue = <<>>
  /\ job_chat_mapping = [j \in JobIds |-> IF j = BatchJob THEN BatchChat ELSE NoChat]
  /\ sent_videos = [c \in Chats |-> {}]
  /\ downloaded_videos = {}
  /\ video_files = [v \in BatchVideos |-> NoPath]
  /\ files = [p \in PathsOf(BatchVideos) |-> "none"]
  /\ created = 1
  /\ job_to_chat = job_chat_mapping
  /\ current_method = "http"
  /\ sw = SwIdle
  /\ task_pc = [t \in {BatchJob} \X BatchVideos |-> "none"]
  /\ task_loc = [t \in {BatchJob} \X BatchVideos |-> NoLoc]
  /\ waiters = <<>>
  /\ bw = BwIdle
  /\ NoHistory(BatchVideos)

BotBusy == send_videos_queue # <<>> \/ bw.pc # "brpop"
Stepping == {t \in Tasks : task_pc[t] \notin {"none", "waiting", "stream", "done"}}
CanAdmit == waiters # <<>> /\ Cardinality(InFlight) < MaxConcurrentDownloads

\* the steps of a task whose fetch succeeds; with total_videos = BatchN recorded
\* no task gets past pd_get_job (the invariant BatchNoCompletion)
BatchTaskStep(t) ==
  \/ pd_is_video_downloaded(t)
  \/ pd_set_downloading(t)
  \/ dv_request(t) /\ task_pc'[t] = "stream" /\ task_loc'[t].total_size > 0
  \/ pd_mark_sadd(t)
  \/ pd_mark_hset(t)
  \/ pd_set_completed(t)
  \/ pd_add_pending_video(t)
  \/ pd_pending_count(t)
  \/ pd_get_job_stats(t)
  \/ pd_get_job(t)

NextBatch ==
  \/ /\ BotBusy
     /\ \/ vsw_brpop
        \/ svb_send /\ (send_count' # send_count => sent_videos' # sent_videos)
        \/ svb_summary
  \/ /\ ~BotBusy
     /\ download_queue # <<>>
     /\ download_worker
  \/ /\ ~BotBusy
     /\ download_queue = <<>>
     /\ \E t \in Stepping : BatchTaskStep(t)
  \/ /\ ~BotBusy
     /\ download_queue = <<>>
     /\ Stepping = {}
     /\ CanAdmit
     /\ pd_start
  \/ /\ ~BotBusy
     /\ download_queue = <<>>
     /\ Stepping = {}
     /\ ~CanAdmit
     /\ \E t \in Tasks : dv_stream(t) /\ task_pc'[t] = "mark_sadd"
                                     /\ files'[task_loc[t].filepath] = "full"

SpecBatch == InitBatch /\ [][NextBatch]_vars

BatchNoCompletion == \A t \in Tasks : task_pc[t] \notin {"update_job", "remaining_count"}
\* ------------------------------------------------------------------------
\* SpecLimit: more download tasks than permits.  Two jobs of two videos each
\* have been scraped and their four tasks are on the download queue; the
\* scrape consumer is about to store downloading for the second job while
\* the dispatcher and the tasks run.
LimitUser == "u1"

InitLimit ==
  /\ jobs = [j \in JobIds |->
              IF j = JobName[1]
              THEN [NoJob EXCEPT !.status = "downloading", !.username = LimitUser,
                                 !.total_videos = Cardinality(Videos)]
              ELSE IF j = JobName[2]
              THEN [NoJob EXCEPT !.status = "scraping", !.username = LimitUser]
              ELSE NoJob]
  /\ job_queue = <<>>
  /\ job_videos = [j \in JobIds |-> IF j \in {JobName[1], JobName[2]} THEN Videos ELSE {}]
  /\ video_username = [j \in JobIds |->
       IF j \in {JobName[1], JobName[2]} THEN LimitUser ELSE ""]
  /\ download_queue = <<JoinColon(<<JobName[2]>>, <<VidName[2]>>),
                        JoinColon(<<JobName[2]>>, <<VidName[1]>>),
                        JoinColon(<<JobName[1]>>, <<VidName[2]>>),
                        JoinColon(<<JobName[1]>>, <<VidName[1]>>)>>
  /\ downloads = [j \in JobIds |-> [v \in Videos |-> <<>>]]
  /\ pending_videos = [j \in JobIds |-> <<>>]
  /\ send_videos_queue = <<>>
  /\ job_chat_mapping = [j \in JobIds |-> NoChat]
  /\ sent_videos = [c \in Chats |-> {}]
  /\ downloaded_videos = {}
  /\ video_files = [v \in Videos |-> NoPath]
  /\ files = [p \in PathsOf(Videos) |-> "none"]
  /\ created = 2
  /\ job_to_chat = job_chat_mapping
  /\ current_method = "http"
  /\ sw = [SwIdle EXCEPT !.pc = "add_videos", !.job_id = JobName[2],
                         !.username = LimitUser, !.total = MaxVideos]
  /\ task_pc = [t \in JobIds \X Videos |-> "none"]
  /\ task_loc = [t \in JobIds \X Videos |-> NoLoc]
  /\ waiters = <<>>
  /\ bw = BwIdle
  /\ NoHistory(Videos)

NextLimit ==
  \/ sw_set_downloading
  \/ download_worker
  \/ process_download

SpecLimit == InitLimit /\ [][NextLimit]_vars

\* ------------------------------------------------------------------------
\* SpecAdmit: the admission limiter under contention.  Two jobs of the same two
\* videos are downloading, the first video is already in the Dedup Index, and
\* the four tasks are on the download queue, the second job's behind the
\* first job's.
InitAdmit ==
  /\ jobs = [j \in JobIds |->
              IF j \in {JobName[1], JobName[2]}
              THEN [NoJob EXCEPT !.status = "downloading", !.username = LimitUser,
                                 !.total_videos = Cardinality(Videos)]
              ELSE NoJob]
  /\ job_queue = <<>>
  /\ job_videos = [j \in JobIds |-> IF j \in {JobName[1], JobName[2]} THEN Videos ELSE {}]
  /\ video_username = [j \in JobIds |->
       IF j \in {JobName[1], JobName[2]} THEN LimitUser ELSE ""]
  /\ download_queue = <<JoinColon(<<JobName[2]>>, <<VidName[2]>>),
                        JoinColon(<<JobName[2]>>, <<VidName[1]>>),
                        JoinColon(<<JobName[1]>>, <<VidName[2]>>),
                        JoinColon(<<JobName[1]>>, <<VidName[1]>>)>>
  /\ downloads = [j \in JobIds |-> [v \in Videos |-> <<>>]]
  /\ pending_videos = [j \in JobIds |-> <<>>]
  /\ send_videos_queue = <<>>
  /\ job_chat_mapping = [j \in JobIds |-> NoChat]
  /\ sent_videos = [c \in Chats |-> {}]
  /\ downloaded_videos = {VidName[1]}
  /\ video_files = [v \in Videos |->
                     IF v = VidName[1] THEN FilePath(LimitUser, v) ELSE NoPath]
  /\ files = [p \in PathsOf(Videos) |->
               IF p = FilePath(LimitUser, VidName[1]) THEN "full" ELSE "none"]
  /\ created = 2
  /\ job_to_chat = job_chat_mapping
  /\ current_method = "http"
  /\ sw = SwIdle
  /\ task_pc = [t \in JobIds \X Videos |-> "none"]
  /\ task_loc = [t \in JobIds \X Videos |-> NoLoc]
  /\ waiters = <<>>
  /\ bw = BwIdle
  /\ NoHistory(Videos)

NextAdmit ==
  \/ download_worker
  \/ process_download

SpecAdmit == InitAdmit /\ [][NextAdmit]_vars

\* the scheduling of the event loop: a step that stays ready is run (the
\* dispatcher's pop, the wake-up of the first waiter of the semaphore, the
\* return of a task's next await: every fetch ends, httpx timeout = 300)
SpecAdmitFair ==
  /\ SpecAdmit
  /\ WF_vars(download_worker)
  /\ WF_vars(process_download)

\* ------------------------------------------------------------------------
\* SpecMap: jobs requested through the bot.  handle_username creates the job
\* with POST /scrape and stores the chat of the job afterwards, while the
\* scrape consumer works on the job queue.
NextMap ==
  \/ handle_username_post
  \/ handle_username_map
  \/ scrape_worker

SpecMap == Init /\ [][NextMap]_vars

\* ------------------------------------------------------------- SpecDelete
\* The pipeline with a client that creates MaxDeleteJobs jobs and sends DELETE
\* and GET requests for any job id, created or not.
MaxDeleteJobs == 1

NotFound == [status_code |-> 404, detail |-> "Job not found"]

\* GET /job/{job_id} (main.get_job_status): the response; the handler writes
\* nothing
get_job_status(job_id) ==
  IF jobs[job_id].status = "absent"
  THEN NotFound
  ELSE [status_code |-> 200, job_id |-> job_id, username |-> jobs[job_id].username,
        status |-> jobs[job_id].status, total_videos |-> jobs[job_id].total_videos,
        downloaded_videos |-> get_job_stats(job_id).completed,
        failed_videos |-> get_job_stats(job_id).failed]

\* a handler that deletes the three keys whatever get_job returned
delete_job_outcome_NoCheck(job_id) ==
  [response |-> [status_code |-> 200, message |-> <<"Job", job_id, "deleted successfully">>],
   jobs |-> [jobs EXCEPT ![job_id] = NoJob],
   job_videos |-> [job_videos EXCEPT ![job_id] = {}],
   video_username |-> [video_username EXCEPT ![job_id] = ""],
   downloads |-> [downloads EXCEPT ![job_id] = [v \in DOMAIN @ |-> <<>>]]]

\* DELETE /job/{job_id} (main.delete_job): the response and the three keys the
\* handler can write, as it leaves them: not found when get_job returns
\* nothing, otherwise job:{id}, job:{id}:videos and job:{id}:downloads deleted
delete_job_outcome(job_id) ==
  IF jobs[job_id].status = "absent"
  THEN [response |-> NotFound, jobs |-> jobs, job_videos |-> job_videos,
        video_username |-> video_username, downloads |-> downloads]
  ELSE [response |-> [status_code |-> 200,
                      message |-> <<"Job", job_id, "deleted successfully">>],
        jobs |-> [jobs EXCEPT ![job_id] = NoJob],
        job_videos |-> [job_videos EXCEPT ![job_id] = {}],
        video_username |-> [video_username EXCEPT ![job_id] = ""],
        downloads |-> [downloads EXCEPT ![job_id] = [v \in DOMAIN @ |-> <<>>]]]

\* a DELETE request for any job id; the queues, the pending lists and the chat
\* mapping are not touched
delete_job ==
  /\ \E job_id \in JobIds :
       LET r == delete_job_outcome(job_id) IN
         /\ jobs' = r.jobs
         /\ job_videos' = r.job_videos
         /\ video_username' = r.video_username
         /\ downloads' = r.downloads
  /\ UNCHANGED <<job_queue, download_queue, pending_videos, send_videos_queue,
                 job_chat_mapping, sent_videos, downloaded_videos, video_files, files,
                 created, job_to_chat, current_method, sw, taskVars, auxVars, running, shutdown, queue_log, bw, histVars>>

NextDelete ==
  \/ created < MaxDeleteJobs /\ scrape_user
  \/ delete_job
  \/ scrape_worker
  \/ download_worker
  \/ process_download

SpecDelete == Init /\ [][NextDelete]_vars

\* ------------------------------------------------------------- SpecScrape
\* The scrape consumer alone, with requests that set max_videos and profile
\* listings that may name a video more than once.
MaxVideosChoices == {0, 1}
VideoListings == SeqsUpTo(Videos, MaxVideos)

PwVideoListings ==
  {[kind |-> "ok", videos |-> l, msg |-> <<>>] : l \in VideoListings \ {<<>>}}
  \cup {[kind |-> "error", videos |-> <<>>, msg |-> m] :
          m \in {MsgPwDetection, MsgPwZeroVideos, MsgPwOther}}
HttpVideoListings ==
  {[kind |-> "ok", videos |-> l, msg |-> <<>>] : l \in VideoListings}
  \cup {[kind |-> "error", videos |-> <<>>, msg |-> MsgHttpError]}

scrape_user_max == scrape_user_with(MaxVideosChoices)
sw_scrape_listing == scrape_user_videos_from(PwVideoListings, HttpVideoListings)

NextScrape ==
  \/ scrape_user_max
  \/ sw_get_next_job
  \/ sw_set_scraping
  \/ sw_get_user_profile
  \/ sw_scrape_listing
  \/ sw_add_video_to_download
  \/ sw_set_downloading
  \/ sw_notify

SpecScrape == Init /\ [][NextScrape]_vars

\* ------------------------------------------------------------ shutdown
\* Worker.stop: the flag both worker loops test is cleared.  A consumer that is
\* inside its brpop at that moment still gets what the brpop returns.
\* (scraper.close and redis.disconnect carry no state of the model.)
worker_stop ==
  /\ running
  /\ running' = FALSE
  /\ shutdown' = [shutdown EXCEPT
                    !.requested = @ \cup {"worker"},
                    !.in_pop = @ \cup {"download"}
                                 \cup (IF sw.pc = "get_next_job" THEN {"scrape"} ELSE {})]
  /\ UNCHANGED <<storeVars, files, created, job_to_chat, current_method, sw, taskVars,
                 auxVars, bw, histVars, queue_log>>

\* the bot process is asked to stop (run_polling returns on a signal): the
\* sender task was started with create_task in post_init, its loop is
\* "while True", and nothing in the bot records the request for it to read
bot_stop ==
  /\ "bot" \notin shutdown.requested
  /\ shutdown' = [shutdown EXCEPT !.requested = @ \cup {"bot"}]
  /\ UNCHANGED <<storeVars, files, created, job_to_chat, current_method, sw, taskVars,
                 auxVars, bw, histVars, running, queue_log>>

\* brpop(..., timeout=5) of a worker consumer returns None on an empty queue
\* after stop(): "continue", the loop test fails, the loop ends
brpop_timeout ==
  /\ \E c \in shutdown.in_pop :
       /\ c = "scrape" => job_queue = <<>>
       /\ c = "download" => download_queue = <<>>
       /\ shutdown' = [shutdown EXCEPT !.in_pop = @ \ {c}]
  /\ UNCHANGED <<storeVars, files, created, job_to_chat, current_method, sw, taskVars,
                 auxVars, bw, histVars, running, queue_log>>

\* the worker process from an empty store, or the bot process with flush
\* signals queued, each with a stop request arriving at any moment.  The tasks
\* the dispatcher creates are left at the semaphore: what they do takes
\* nothing from a queue.
InitStop == Init \/ InitDeliver

NextStop ==
  \/ scrape_user
  \/ scrape_worker
  \/ download_worker
  \/ video_sender_worker
  \/ worker_stop
  \/ bot_stop
  \/ brpop_timeout

SpecStop == InitStop /\ [][NextStop]_vars

\* ------------------------------------------------------------ SpecProgress
\* One job whose downloads meet every response: the content-length header is
\* absent or declares DeclaredLengths bytes, and the body iterated has up to
\* MaxBody bytes in chunks of ChunkSizes, whatever the header declares.
DeclaredLengths == {0, 1, 2, 3}
ChunkSizes == {1, 2}
MaxBody == 3
MaxProgressJobs == 1

dv_request_any(t) == dv_request_with(t, DeclaredLengths)
dv_stream_any(t) == dv_stream_with(t, ChunkSizes, MaxBody, FALSE)

NextProgress ==
  \/ created < MaxProgressJobs /\ scrape_user
  \/ scrape_worker
  \/ download_worker
  \/ process_download
  \/ \E t \in Tasks : dv_request_any(t)
  \/ \E t \in Tasks : dv_stream_any(t)

SpecProgress == Init /\ [][NextProgress]_vars

\* --------------------------------------------------------------- SpecStats
\* RedisClient.update_download_status called in any order for any task, with
\* the statuses and keywords process_download passes.
StatusCalls ==
  { [status |-> "downloading", kw |-> << <<"progress", <<"0">> >> >>],
    [status |-> "downloading", kw |-> << <<"progress", <<"50">> >> >>],
    [status |-> "completed",
     kw |-> << <<"progress", <<"100">> >>,
               <<"file_path", PyReprStr(FilePath("u1", VidName[1]))>> >>],
    [status |-> "completed",
     kw |-> << <<"progress", <<"100">> >>,
               <<"file_path", PyReprStr(FilePath("u1", VidName[1]))>>,
               <<"reused", <<"True">> >> >>],
    [status |-> "failed", kw |-> << <<"error", PyReprStr(MsgHttpError)>> >>] }

update_download_status_any ==
  /\ \E job_id \in JobIds, video_id \in Videos, c \in StatusCalls :
       downloads' = update_download_status(downloads, job_id, video_id, c.status, c.kw)
  /\ UNCHANGED <<pdFixed, jobs, download_queue, pending_videos, send_videos_queue,
                 signal_kinds, downloaded_videos, video_files, files, taskVars, fetches>>

NextStats == update_download_status_any

SpecStats == Init /\ [][NextStats]_vars

\* ------------------------------------------------------------------------
\* SpecPermit: every way out of process_download.  As SpecAdmit, with the
\* video data of the second job's second task missing (its hgetall returns
\* nothing) and a State Store that can go down while a task is in its try
\* block: the call in the try raises and so does update_download_status in
\* the except branch, and the exception leaves "async with semaphore".
InitPermit ==
  /\ jobs = [j \in JobIds |->
              IF j \in {JobName[1], JobName[2]}
              THEN [NoJob EXCEPT !.status = "downloading", !.username = LimitUser,
                                 !.total_videos = Cardinality(Videos)]
              ELSE NoJob]
  /\ job_queue = <<>>
  /\ job_videos = [j \in JobIds |->
                    IF j = JobName[1] THEN Videos
                    ELSE IF j = JobName[2] THEN {VidName[1]} ELSE {}]
  /\ video_username = [j \in JobIds |->
       IF j \in {JobName[1], JobName[2]} THEN LimitUser ELSE ""]
  /\ download_queue = <<JoinColon(<<JobName[2]>>, <<VidName[2]>>),
                        JoinColon(<<JobName[2]>>, <<VidName[1]>>),
                        JoinColon(<<JobName[1]>>, <<VidName[2]>>),
                        JoinColon(<<JobName[1]>>, <<VidName[1]>>)>>
  /\ downloads = [j \in JobIds |-> [v \in Videos |-> <<>>]]
  /\ pending_videos = [j \in JobIds |-> <<>>]
  /\ send_videos_queue = <<>>
  /\ job_chat_mapping = [j \in JobIds |-> NoChat]
  /\ sent_videos = [c \in Chats |-> {}]
  /\ downloaded_videos = {VidName[1]}
  /\ video_files = [v \in Videos |->
                     IF v = VidName[1] THEN FilePath(LimitUser, v) ELSE NoPath]
  /\ files = [p \in PathsOf(Videos) |->
               IF p = FilePath(LimitUser, VidName[1]) THEN "full" ELSE "none"]
  /\ created = 2
  /\ job_to_chat = job_chat_mapping
  /\ current_method = "http"
  /\ sw = SwIdle
  /\ task_pc = [t \in JobIds \X Videos |-> "none"]
  /\ task_loc = [t \in JobIds \X Videos |-> NoLoc]
  /\ waiters = <<>>
  /\ bw = BwIdle
  /\ NoHistory(Videos)

\* except Exception: update_download_status(failed) raises as well
pd_handler_raises(t) ==
  /\ t \in InFlight
  /\ Finish(t)
  /\ UNCHANGED <<pdFixed, jobs, download_queue, downloads, pending_videos,
                 send_videos_queue, signal_kinds, downloaded_videos, video_files, files,
                 waiters, fetches>>

NextPermit ==
  \/ download_worker
  \/ process_download
  \/ \E t \in Tasks : pd_handler_raises(t)

SpecPermit == InitPermit /\ [][NextPermit]_vars

\* ------------------------------------------------------------------------
\* SpecUnified: the unified Video Source alone.  After initialize() the
\* active variant is Playwright, or HTTP when Playwright did not start; then
\* up to MaxOps operations are called with every outcome of the two variants.
MaxOps == 3

InitUnified ==
  /\ EmptyStore(Videos)
  /\ NoRecord(Videos)
  /\ retry = RetryIdle
  /\ cache = CacheEmpty
  /\ files = [p \in PathsOf(Videos) |-> "none"]
  /\ created = 0
  /\ job_to_chat = [j \in JobIds |-> NoChat]
  /\ current_method \in {"playwright", "http"}
  /\ unified = [http_scraper |-> IF current_method = "http" THEN "ready" ELSE "none",
                log |-> <<>>]
  /\ sw = SwIdle
  /\ task_pc = [t \in JobIds \X Videos |-> "none"]
  /\ task_loc = [t \in JobIds \X Videos |-> NoLoc]
  /\ waiters = <<>>
  /\ bw = BwIdle

unifiedRest == <<storeVars, files, created, job_to_chat, sw, taskVars, bw, histVars,
                 running, shutdown, queue_log, retry, cache>>

\* one operation through _try_with_fallback.  The HTTP variant is created and
\* initialized at the first switch; its initialize() can raise, and then the
\* object stays assigned, the method is not switched and http_func not called
unified_operation(op, Pw, Http) ==
  /\ Len(unified.log) < MaxOps
  /\ \E pw \in Pw, http \in Http, init_ok \in BOOLEAN :
       LET r == try_with_fallback(current_method, pw, http)
           switch == current_method # "http" /\ r.method = "http"
           entry(called, raised) ==
             [op |-> op, before |-> current_method,
              pw |-> IF "playwright" \in Range(r.called) THEN pw.msg ELSE <<>>,
              called |-> called, raised |-> raised]
       IN IF switch /\ unified.http_scraper = "none" /\ ~init_ok
          THEN /\ UNCHANGED current_method
               /\ unified' = [http_scraper |-> "created",
                              log |-> Append(unified.log,
                                             entry(<<"playwright">>, TRUE))]
          ELSE /\ (init_ok \/ (switch /\ unified.http_scraper = "none"))
               /\ current_method' = r.method
               /\ unified' = [http_scraper |->
                                IF switch /\ unified.http_scraper = "none"
                                THEN "ready" ELSE unified.http_scraper,
                              log |-> Append(unified.log,
                                             entry(r.called, r.out.kind = "error"))]
  /\ UNCHANGED unifiedRest

unified_get_user_profile ==
  unified_operation("get_user_profile", PwProfileOutcomes, HttpProfileOutcomes)

unified_scrape_user_videos ==
  unified_operation("scrape_user_videos", PwVideoOutcomes, HttpVideoOutcomes)

\* get_video_download_url: the Playwright variant when it is the active one
\* (its error is logged), then NotImplementedError in every other case
unified_get_video_download_url ==
  /\ Len(unified.log) < MaxOps
  /\ \E ok \in BOOLEAN :
       /\ (current_method = "http" => ok)
       /\ unified' = [unified EXCEPT !.log = Append(@,
            [op |-> "get_video_download_url", before |-> current_method,
             pw |-> IF current_method = "playwright" /\ ~ok THEN MsgPwOther ELSE <<>>,
             called |-> IF current_method = "playwright" THEN <<"playwright">> ELSE <<>>,
             raised |-> ~(current_method = "playwright" /\ ok)])]
  /\ UNCHANGED <<current_method, unifiedRest>>

NextUnified ==
  \/ unified_get_user_profile
  \/ unified_scrape_user_videos
  \/ unified_get_video_download_url

SpecUnified == InitUnified /\ [][NextUnified]_vars

\* ------------------------------------------------------------------------
\* SpecRetry: one call of the Playwright variant with its own retries.  Each
\* attempt returns or raises one of the errors below; the call is
\* get_user_profile or scrape_user_videos with retry_count = 0.
max_retries == 2

MsgEmptyResponse == <<"tiktok", "returned", "an", "empty", "response">>
MsgEmptyUser == <<"tiktok", "returned", "empty", "user", "data">>
MsgZeroVideos == <<"tiktok", "returned", "0 videos">>
MsgCaptcha == <<"captcha", "required">>
MsgBlocked == <<"request", "blocked">>
MsgTimeout == <<"timeout", "30000ms", "exceeded">>
BotDetectionPrefix == <<"tiktok", "bot", "detection:">>

\* what one attempt can raise: user.info() and the check of its result, or
\* user.videos() and the check of the list
AttemptErrors(op) ==
  {MsgEmptyResponse, MsgCaptcha, MsgBlocked, MsgPwOther, MsgTimeout}
  \cup (IF op = "get_user_profile" THEN {MsgEmptyUser} ELSE {MsgZeroVideos})

\* the keywords of the except branch of the two operations
DetectionKeywords(op) ==
  {<<"empty", "response">>, <<"empty">>, <<"detecting">>, <<"bot">>, <<"blocked">>,
   <<"captcha">>}
  \cup (IF op = "scrape_user_videos" THEN {<<"0 videos">>} ELSE {})
is_detection(op, msg) == \E kw \in DetectionKeywords(op) : Contains(msg, kw)

\* a retry test that admits one attempt more
may_retry_Inclusive(retry_count) == retry_count <= max_retries

\* if retry_count < max_retries
may_retry(retry_count) == retry_count < max_retries

retryRest == <<storeVars, files, created, job_to_chat, current_method, sw, taskVars, bw,
               histVars, running, shutdown, queue_log, unified, cache>>

\* the caller's call, retry_count = 0
pw_call(op) ==
  /\ retry.pc = "idle"
  /\ retry' = [RetryIdle EXCEPT !.pc = "attempt", !.op = op]
  /\ UNCHANGED retryRest

pw_get_user_profile == pw_call("get_user_profile")
pw_scrape_user_videos == pw_call("scrape_user_videos")

\* the try block of one invocation and its except branch
pw_attempt ==
  /\ retry.pc = "attempt"
  /\ \/ retry' = [retry EXCEPT !.pc = "returned", !.attempts = @ + 1]
     \/ \E e \in AttemptErrors(retry.op) :
          retry' = [retry EXCEPT
            !.attempts = @ + 1,
            !.errors = Append(@, e),
            !.pc = IF is_detection(retry.op, e) /\ may_retry(retry.retry_count)
                   THEN "sleep" ELSE "raised",
            !.raised = IF ~is_detection(retry.op, e) THEN e
                       ELSE IF may_retry(retry.retry_count) THEN <<>>
                       ELSE BotDetectionPrefix \o e]
  /\ UNCHANGED retryRest

\* await asyncio.sleep(wait_time); return await self.<op>(..., retry_count + 1)
pw_retry ==
  /\ retry.pc = "sleep"
  /\ retry' = [retry EXCEPT !.pc = "attempt", !.retry_count = @ + 1]
  /\ UNCHANGED retryRest

NextRetry ==
  \/ pw_get_user_profile
  \/ pw_scrape_user_videos
  \/ pw_attempt
  \/ pw_retry

SpecRetry == Init /\ [][NextRetry]_vars

\* ------------------------------------------------------------------------
\* SpecCache: VideoCache for one user.  The cache file starts absent (no
\* ids); add_videos is called up to MaxCacheCalls times with any list of up
\* to MaxIds ids, repeated ids included, and the write of the file can fail.
MaxCacheCalls == 2
MaxIds == 2
IdLists == SeqsUpTo(Videos, MaxIds)

\* [vid for vid in video_ids if vid not in existing_ids]
NotIn(video_ids, existing_ids) == SelectSeq(video_ids, LAMBDA vid : vid \notin existing_ids)

\* save_videos: the video_ids and total_videos written to the file, or the
\* file as it was when the write raises (the error is logged)
save_videos(file, video_ids, write_ok) ==
  LET existing_ids == Range(file.video_ids)
      new_ids == NotIn(video_ids, existing_ids)
      updated_ids == new_ids \o file.video_ids
  IN IF write_ok
     THEN [video_ids |-> updated_ids, total_videos |-> Len(updated_ids)]
     ELSE file

\* add_videos: the file afterwards and the count returned.  list(existing_ids)
\* is the cached ids in the order of the set; save_videos filters every one
\* of them out again, so the stored order is taken for it
add_videos(file, video_ids, write_ok) ==
  LET existing_ids == Range(file.video_ids)
      new_ids == NotIn(video_ids, existing_ids)
      all_ids == new_ids \o file.video_ids
  IN [file |-> IF new_ids # <<>> THEN save_videos(file, all_ids, write_ok) ELSE file,
      returned |-> Len(new_ids)]

cacheRest == <<storeVars, files, created, job_to_chat, current_method, sw, taskVars, bw,
               histVars, running, shutdown, queue_log, unified, retry>>

cache_add_videos ==
  /\ cache.calls < MaxCacheCalls
  /\ \E video_ids \in IdLists, write_ok \in BOOLEAN :
       LET file == [video_ids |-> cache.video_ids, total_videos |-> cache.total_videos]
           r == add_videos(file, video_ids, write_ok)
       IN cache' = [video_ids |-> r.file.video_ids, total_videos |-> r.file.total_videos,
                    before |-> cache.video_ids, ids |-> video_ids,
                    returned |-> r.returned, calls |-> cache.calls + 1]
  /\ UNCHANGED cacheRest

NextCache == cache_add_videos

SpecCache == Init /\ [][NextCache]_vars

\* ------------------------------------------------------------- SpecPending
\* One job of PendingN videos, created through the bot (its chat is mapped) or
\* through POST /scrape alone (no chat is mapped), from the state in which the
\* scrape consumer has just finished it.  Every fetch and every send
\* succeeds; the dispatcher, the tasks and the delivery consumer interleave
\* freely.
PendingN == 5
PendingVideos == {VidName[i] : i \in 1..PendingN}

InitPending ==
  /\ jobs = [j \in JobIds |->
              IF j = BatchJob
              THEN [NoJob EXCEPT !.status = "downloading", !.username = BatchUser,
                                 !.total_videos = PendingN]
              ELSE NoJob]
  /\ job_queue = <<>>
  /\ job_videos = [j \in JobIds |-> IF j = BatchJob THEN PendingVideos ELSE {}]
  /\ video_username = [j \in JobIds |-> IF j = BatchJob THEN BatchUser ELSE ""]
  /\ download_queue = [i \in 1..PendingN |->
                         JoinColon(<<BatchJob>>, <<VidName[PendingN + 1 - i]>>)]
  /\ downloads = [j \in JobIds |-> [v \in BatchVideos |-> <<>>]]
  /\ pending_videos = [j \in JobIds |-> <<>>]
  /\ send_videos_queue = <<>>
  /\ \E c \in {BatchChat, NoChat} :
       job_chat_mapping = [j \in JobIds |-> IF j = BatchJob THEN c ELSE NoChat]
  /\ sent_videos = [c \in Chats |-> {}]
  /\ downloaded_videos = {}
  /\ video_files = [v \in BatchVideos |-> NoPath]
  /\ files = [p \in PathsOf(BatchVideos) |-> "none"]
  /\ created = 1
  /\ job_to_chat = job_chat_mapping
  /\ current_method = "http"
  /\ sw = SwIdle
  /\ task_pc = [t \in {BatchJob} \X BatchVideos |-> "none"]
  /\ task_loc = [t \in {BatchJob} \X BatchVideos |-> NoLoc]
  /\ waiters = <<>>
  /\ bw = BwIdle
  /\ NoHistory(BatchVideos)

NextPending ==
  \/ download_worker
  \/ pd_start
  \/ \E t \in Tasks : BatchTaskStep(t)
  \/ \E t \in Tasks : dv_stream(t) /\ task_pc'[t] = "mark_sadd"
                                  /\ files'[task_loc[t].filepath] = "full"
  \/ vsw_brpop
  \/ svb_send /\ (send_count' # send_count => sent_videos' # sent_videos)
  \/ svb_summary

SpecPending == InitPending /\ [][NextPending]_vars

\* ================================================================ claims
StatusRank(status) ==
  CASE status = "absent" -> 0
    [] status = "pending" -> 1
    [] status = "scraping" -> 2
    [] status = "downloading" -> 3
    [] status \in {"completed", "failed"} -> 4

Terminal == {"completed", "failed"}

\* the tasks of a job, by the status their download record carries
TaskStatus(j, v) == DlStatus(downloads[j][v])
FinishedTasks(j) == {v \in job_videos[j] : TaskStatus(j, v) \in Terminal}
FailedTasks(j) == {v \in job_videos[j] : TaskStatus(j, v) = "failed"}

CompletedTasks(j) == {v \in job_videos[j] : TaskStatus(j, v) = "completed"}

\* the scrape consumer has stored total_videos for the job and left it
TotalSet(j) == sw.job_id # j /\ jobs[j].status \in {"downloading", "completed"}

\* nothing is queued and no consumer or task is in the middle of a step
Quiescent ==
  /\ job_queue = <<>>
  /\ sw.pc = "get_next_job"
  /\ download_queue = <<>>
  /\ waiters = <<>>
  /\ InFlight = {}

\* C1: the status of a job only moves forward along pending, scraping,
\* downloading, {completed | failed}: every change of status goes to a later
\* stage, so no status is re-entered and completed and failed are never left.
C1_MonotonicLifecycle ==
  [][\A j \in JobIds :
       jobs'[j].status # jobs[j].status
         => StatusRank(jobs'[j].status) > StatusRank(jobs[j].status)]_vars

\* C2: whenever a job is completed, every VideoTask recorded for it is
\* completed or failed and their number equals the job's total_videos.
C2_CompletedMeansAllDone ==
  \A j \in JobIds :
    jobs[j].status = "completed"
      => /\ FinishedTasks(j) = job_videos[j]
         /\ Cardinality(FinishedTasks(j)) = jobs[j].total_videos

\* C3: no video_id is requested from the network more than once.
C3_FetchAtMostOnce == \A v \in VideoIds : fetches[v] <= 1

\* C5: every created job ends completed or failed; in the finite form, a
\* state in which all queues are empty and every consumer and task has
\* returned holds no job that is still pending, scraping or downloading.
C5_EveryJobTerminates ==
  Quiescent => \A j \in JobIds : jobs[j].status \in {"absent"} \cup Terminal

\* C7: a job whose scrape returned N videos, of which k downloads failed and
\* N - k succeeded, is completed with downloaded_videos = N - k and
\* failed_videos = k once all its tasks have finished, and is never failed.
C7_PartialFailureCompletes ==
  \A j \in JobIds :
    LET N == Cardinality(job_videos[j])
        k == Cardinality(FailedTasks(j))
    IN (/\ sw.job_id # j
        /\ jobs[j].status \in {"downloading", "completed", "failed"}
        /\ N > 0
        /\ k > 0
        /\ \A v \in job_videos[j] : <<j, v>> \in Tasks /\ task_pc[<<j, v>>] = "done")
       => /\ jobs[j].status = "completed"
          /\ jobs[j].downloaded_videos = N - k
          /\ jobs[j].failed_videos = k

C9_ZeroVideosFailsJob ==
  \A j \in JobIds :
    src_zero[j]
      => /\ jobs[j].status \in {"scraping", "failed"}
         /\ (sw.job_id # j => jobs[j].status = "failed" /\ jobs[j].error # <<>>)

\* C10: at most one job has status scraping.
C10_OneJobScraping ==
  Cardinality({j \in JobIds : jobs[j].status = "scraping"}) <= 1

\* C4, as stated: send_video is invoked at most once per (chat, video).
C4_InvokedAtMostOnce ==
  \A c \in Chats : \A v \in VideoIds : send_count[c][v] <= 1

\* C4, amended: send_video is never invoked for a (chat, video) pair that is
\* in the chat's delivery set, so at most one invocation per pair is recorded
\* as delivered.
C4_NoSendOnceDelivered ==
  [][\A c \in Chats : \A v \in VideoIds :
       send_count'[c][v] > send_count[c][v] => v \notin sent_videos[c]]_vars

C4_Witness ==
  \E c \in Chats : \E v \in VideoIds :
    /\ v \in sent_videos[c]
    /\ send_count[c][v] = 1
    /\ bw.chat_id = c
    /\ bw.skipped_count > 0
    /\ Len(send_videos_queue) > 0

RECURSIVE SumSizes(_)
SumSizes(fl) == IF fl = <<>> THEN 0 ELSE fl[1][1] + SumSizes(Tail(fl))

BatchQuiescent ==
  /\ download_queue = <<>>
  /\ waiters = <<>>
  /\ \A t \in Tasks : task_pc[t] = "done"
  /\ send_videos_queue = <<>>
  /\ bw.pc = "brpop"

\* C6: for the job of BatchN videos whose downloads all complete, every flush
\* takes at most 5 entries, and when everything has come to rest the flush
\* sizes sum to BatchN, the last flush was signalled by the completion of the
\* job, the pending queue is empty and all BatchN videos are delivered.
C6_BatchDelivery ==
  LET fl == flushes[BatchJob] IN
    /\ \A i \in 1..Len(fl) : fl[i][1] <= BatchCount
    /\ BatchQuiescent
         => /\ SumSizes(fl) = BatchN
            /\ fl # <<>> /\ fl[Len(fl)][2] = "final"
            /\ pending_videos[BatchJob] = <<>>
            /\ sent_videos[BatchChat] = BatchVideos

C12_ConcurrencyBound == Cardinality(InFlight) <= MaxConcurrentDownloads

C12_Witness ==
  /\ Cardinality(InFlight) = MaxConcurrentDownloads
  /\ waiters # <<>>
  /\ \E s, t \in InFlight : s[1] # t[1]

\* C13: once the scrape consumer has stored total_videos for a job, the number
\* of its tasks that are completed or failed never exceeds total_videos,
\* whether read from the task records, from get_job_stats or from the
\* counters of the job record.
C13_CountsWithinTotal ==
  \A j \in JobIds :
    TotalSet(j)
      => /\ Cardinality(FinishedTasks(j)) <= jobs[j].total_videos
         /\ get_job_stats(j).completed + get_job_stats(j).failed <= jobs[j].total_videos
         /\ jobs[j].downloaded_videos + jobs[j].failed_videos <= jobs[j].total_videos

C13_Witness ==
  \E j \in JobIds :
    /\ TotalSet(j)
    /\ jobs[j].total_videos = MaxVideos
    /\ Cardinality(FinishedTasks(j)) = jobs[j].total_videos
    /\ FailedTasks(j) # {} /\ CompletedTasks(j) # {}

\* C14: every finished task is counted in exactly one of the job's completed
\* and failed counts: get_job_stats reports as completed exactly the tasks
\* whose record is completed and as failed exactly those whose record is
\* failed, and a completed job's counters add up to its finished tasks.
C14_CountedExactlyOnce ==
  \A j \in JobIds :
    /\ get_job_stats(j).completed = Cardinality(CompletedTasks(j))
    /\ get_job_stats(j).failed = Cardinality(FailedTasks(j))
    /\ jobs[j].status = "completed"
         => jobs[j].downloaded_videos + jobs[j].failed_videos
              = Cardinality(FinishedTasks(j))

\* C15: the chat of a job is written once and never changes, and whenever the
\* scrape consumer (failure notification) or the delivery consumer (flush)
\* looks the chat of an existing job up, it is present.
C15_MappingPresentAndFixed ==
  [][/\ \A j \in JobIds :
          job_chat_mapping[j] # NoChat => job_chat_mapping'[j] = job_chat_mapping[j]
     /\ (sw.pc = "notify" /\ sw'.pc # "notify" /\ jobs[sw.job_id].status # "absent")
          => job_chat_mapping[sw.job_id] # NoChat
     /\ (bw.pc = "brpop" /\ bw' # bw /\ jobs[RPeek(send_videos_queue)].status # "absent")
          => job_chat_mapping[RPeek(send_videos_queue)] # NoChat]_vars

\* C16: a delivery failure in a flush (the file is missing, or sending raises)
\* is skipped: the step takes only the failed entry from the batch and stays
\* in the loop over the rest, leaves every job record and pending queue as it
\* is, and does not add the video to the chat's delivery set.
C16_DeliveryFailureSkipped ==
  [][(/\ bw.pc = "send"
      /\ bw.batch # <<>>
      /\ bw' # bw
      /\ bw'.sent_count = bw.sent_count
      /\ bw'.skipped_count = bw.skipped_count)
       => /\ bw'.pc = "send"
          /\ bw'.batch = Tail(bw.batch)
          /\ jobs' = jobs
          /\ pending_videos' = pending_videos
          /\ sent_videos' = sent_videos]_vars

C16_Witness ==
  \E v \in VideoIds :
    /\ bw.pc = "send"
    /\ bw.batch = <<>>
    /\ bw.size >= 2
    /\ bw.sent_count >= 1
    /\ bw.sent_count + bw.skipped_count < bw.size
    /\ v \notin sent_videos[bw.chat_id]

\* C17: a store error in the scrape consumer loses no job: when the job queue
\* is empty and the consumer waits for the next job id, no job is pending.
C17_NoJobLost ==
  (job_queue = <<>> /\ sw.pc = "get_next_job")
    => \A j \in JobIds : jobs[j].status # "pending"

\* C18: the file at the storage path of a download stored as completed holds
\* the complete content, unless a fetch is writing that file at the moment: a
\* fetch that broke off leaves no file that a later attempt takes for the
\* download.
C18_CompleteFiles ==
  \A j \in JobIds : \A v \in job_videos[j] :
    LET path == FilePath(jobs[j].username, v) IN
      (/\ TaskStatus(j, v) = "completed"
       /\ \A t \in Tasks : task_pc[t] = "stream" => task_loc[t].filepath # path)
        => files[path] \in {"full", "zero"}

\* the job was created and its record is absent: delete_job removed it
Deleted(j) ==
  /\ jobs[j].status = "absent"
  /\ \E n \in 1..created : JobName[n] = j

\* C19: once delete_job has removed a job, its job record and its task
\* records (job:{id}:videos, job:{id}:downloads) stay absent whatever step of
\* the workers follows
C19_DeletedStaysAbsent ==
  [][\A j \in JobIds :
       Deleted(j) => /\ jobs'[j].status = "absent"
                     /\ job_videos'[j] = {}
                     /\ \A v \in DOMAIN downloads'[j] : downloads'[j][v] = <<>>]_vars

\* C20: for a job id with no job record, GET /job/{id} and DELETE /job/{id}
\* answer not found, and the delete leaves every job record and task record
\* as it is (the handler writes no other key)
C20_UnknownJobNotFound ==
  \A j \in JobIds :
    jobs[j].status = "absent" =>
      /\ get_job_status(j) = NotFound
      /\ delete_job_outcome(j).response = NotFound
      /\ delete_job_outcome(j).jobs = jobs
      /\ delete_job_outcome(j).job_videos = job_videos
      /\ delete_job_outcome(j).video_username = video_username
      /\ delete_job_outcome(j).downloads = downloads

\* a deleted job whose task records a running task has written again, and an
\* id that was never given out, while the queues still hold work
C20_Witness ==
  \E j \in JobIds :
    /\ Deleted(j)
    /\ \E v \in DOMAIN downloads[j] : downloads[j][v] # <<>>
    /\ \E i \in JobIds : jobs[i].status = "absent" /\ ~Deleted(i)

\* C21: a task that ends failed triggers the completion check as a completed
\* one does: a job all of whose tasks have ended failed (so the last to finish
\* was a failed one) is completed once its tasks have returned.
C21_FailedTaskCompletesJob ==
  \A j \in JobIds :
    (/\ TotalSet(j)
     /\ jobs[j].total_videos > 0
     /\ FailedTasks(j) = job_videos[j]
     /\ Cardinality(job_videos[j]) = jobs[j].total_videos
     /\ \A v \in job_videos[j] : task_pc[<<j, v>>] = "done")
    => jobs[j].status = "completed"

\* C22: a task that finds its video_id in the global download set calls no
\* downloader: its next steps take the stored path, store the task completed
\* with that path, and push (video_id, stored path) on the job's pending
\* queue, and none of these steps issues a fetch.
C22_ReuseWithoutDownload ==
  [][\A t \in Tasks :
       /\ (task_pc[t] = "get_video_filepath" /\ task_pc'[t] # task_pc[t])
            => /\ task_pc'[t] = "reuse_completed"
               /\ task_loc'[t].filepath = video_files[t[2]]
               /\ fetches' = fetches
       /\ (task_pc[t] = "reuse_completed" /\ task_pc'[t] # task_pc[t])
            => /\ task_pc'[t] = "add_pending_video"
               /\ DlStatus(downloads'[t[1]][t[2]]) = "completed"
               /\ Contains(downloads'[t[1]][t[2]], PyReprStr(task_loc[t].filepath))
               /\ fetches' = fetches
       /\ (task_pc[t] = "add_pending_video" /\ task_pc'[t] # task_pc[t])
            => /\ pending_videos'[t[1]] =
                    LPush(pending_videos[t[1]], JoinColon(<<t[2]>>, task_loc[t].filepath))
               /\ fetches' = fetches]_vars

\* the step of task t in which its fetch ends without content: the request
\* fails, the stream breaks, or the stream ends with no byte received
FetchEndsBad(t) ==
  \/ /\ task_pc[t] = "download_video"
     /\ fetches'[t[2]] = fetches[t[2]] + 1
     /\ task_pc'[t] \notin {"download_video", "stream"}
  \/ /\ task_pc[t] = "stream"
     /\ task_pc'[t] # "stream"
     /\ files'[task_loc[t].filepath] # "full"

\* C23: a fetch that ends with a transport error, a non-success status or zero
\* bytes received stores the task failed with the error, adds nothing to the
\* global download set, and the task returns; a pair taken from the download
\* queue never returns to it and a task that has returned never runs again.
C23_FailedFetchNotRetried ==
  [][\A t \in Tasks :
       /\ FetchEndsBad(t)
            => /\ DlStatus(downloads'[t[1]][t[2]]) = "failed"
               /\ Contains(downloads'[t[1]][t[2]], PyReprStr(<<"error">>))
               /\ downloaded_videos' = downloaded_videos
               /\ video_files' = video_files
               /\ task_pc'[t] = "done"
       /\ task_pc[t] = "done" => task_pc'[t] = "done"
       /\ task_pc[t] # "none"
            => \A i \in 1..Len(download_queue') :
                 download_queue'[i] # JoinColon(<<t[1]>>, <<t[2]>>)]_vars

\* the entries of the download queue that name task (j, v)
QueueEntries(j, v) ==
  {i \in 1..Len(download_queue) : download_queue[i] = JoinColon(<<j>>, <<v>>)}

\* C24: once a scrape has succeeded, each video recorded for the job has
\* exactly one entry on the download queue, total_videos is the number of
\* VideoTasks recorded, that number is at most max_videos when max_videos is
\* set, and a job is not downloading while videos are still to be enqueued.
C24_OneTaskPerVideo ==
  \A j \in JobIds :
    /\ TotalSet(j)
         => /\ \A v \in Videos :
                 Cardinality(QueueEntries(j, v)) = (IF v \in job_videos[j] THEN 1 ELSE 0)
            /\ jobs[j].total_videos = Cardinality(job_videos[j])
            /\ jobs[j].max_videos # 0
                 => Cardinality(job_videos[j]) <= jobs[j].max_videos
    /\ (jobs[j].status = "downloading" /\ sw.job_id = j) => sw.videos = <<>>

\* C25: every flush that took entries from the pending queue sends exactly
\* one summary, and its counts are the number of videos sent and the number
\* skipped as duplicates in that flush: the counters start at zero, each
\* entry adds one to sent exactly when the video becomes sent to the chat and
\* one to skipped exactly when it had been sent before, and the step that
\* ends the flush sends one summary carrying the two counters.
C25_OneSummaryPerFlush ==
  [][/\ (bw.pc = "brpop" /\ bw'.pc = "send")
          => bw'.sent_count = 0 /\ bw'.skipped_count = 0 /\ bw'.size >= 1
     /\ (bw.pc = "send" /\ bw'.pc = "send" /\ bw' # bw)
          => LET video_id == SplitColon(Head(bw.batch))[1][1] IN
               /\ bw'.sent_count - bw.sent_count =
                    (IF sent_videos'[bw.chat_id] # sent_videos[bw.chat_id] THEN 1 ELSE 0)
               /\ bw'.skipped_count - bw.skipped_count =
                    (IF video_id \in sent_videos[bw.chat_id] THEN 1 ELSE 0)
     /\ (bw.pc = "send" /\ bw'.pc = "brpop")
          => summaries' = [summaries EXCEPT ![bw.job_id] =
                             Append(@, <<bw.sent_count, bw.skipped_count>>)]
     /\ summaries' # summaries => (bw.pc = "send" /\ bw'.pc = "brpop")]_vars

\* C26: once a shutdown of its process has been requested, a queue consumer
\* (scrape consumer, download dispatcher, delivery consumer) takes at most one
\* more item from its queue
C26_AtMostOnePopAfterShutdown ==
  \A c \in Consumers : shutdown.late[c] <= 1

\* C27: the failure notification of a failed scrape is best-effort: when the
\* lookup of the subscriber or the Notifier call raises, the job stays failed
\* with its error message, nothing is taken from or added to the job queue,
\* and the scrape consumer is back at the pop of the next job, not in the
\* sleep of its outer handler.
C27_NotifyBestEffort ==
  [][\A j \in JobIds :
       (/\ notices'[j] # notices[j]
        /\ notices'[j][Len(notices'[j])] \in {"lookup_raised", "send_raised"})
         => /\ sw.job_id = j
            /\ jobs[j].status = "failed"
            /\ jobs[j].error # NoJob.error
            /\ jobs'[j] = jobs[j]
            /\ job_queue' = job_queue
            /\ sw' = SwIdle]_vars

\* the Notifier raised for one failed job, the consumer went on to the next
\* job, and for that one the lookup raised
C27_Witness ==
  \E j \in JobIds :
    /\ notices[j] = <<"send_raised">>
    /\ jobs[j].status = "failed"
    /\ \E k \in JobIds \ {j} :
         /\ notices[k] = <<"lookup_raised">>
         /\ jobs[k].status = "failed"
    /\ sw.pc = "get_next_job"

\* C28: no dequeued download task waits for the admission limiter forever:
\* with every await of an admitted task returning, each task the dispatcher
\* has taken from the download queue is eventually past "async with
\* semaphore", also the tasks of the job queued behind another job's.
C28_EventuallyAdmitted ==
  \A t \in JobIds \X Videos : (task_pc[t] = "waiting") ~> (task_pc[t] \notin {"none", "waiting"})

\* every permit is taken and a task of the second job waits for one
C28_Witness ==
  /\ Cardinality(InFlight) = MaxConcurrentDownloads
  /\ \E v \in Videos : task_pc[<<JobName[2], v>>] = "waiting"

IsPrefix(a, b) == Len(a) <= Len(b) /\ SubSeq(b, 1, Len(a)) = a

\* C29: download tasks are taken from the download queue in the order in
\* which they were enqueued (the k-th entry popped is the k-th entry pushed,
\* and the task of the entry popped is the one dispatched, behind those
\* dispatched before it), and the entries of a job are pushed in the order of
\* the list its scrape returned.
C29_FifoDispatch ==
  /\ [](/\ IsPrefix(queue_log.deq, queue_log.enq)
        /\ queue_log.enq = queue_log.deq \o Reverse(download_queue))
  /\ [][/\ queue_log'.deq # queue_log.deq
             => LET e == SplitColon(queue_log'.deq[Len(queue_log'.deq)]) IN
                  waiters' = Append(waiters, <<e[1][1], e[2][1]>>)
        /\ queue_log'.enq # queue_log.enq
             => /\ sw.videos # <<>>
                /\ queue_log'.enq =
                     Append(queue_log.enq, JoinColon(<<sw.job_id>>, <<Head(sw.videos)>>))
                /\ sw'.videos = Tail(sw.videos)
                /\ sw'.job_id = sw.job_id]_vars

\* the scrape of a job returned the second video before the first, and its
\* two tasks have been dispatched in that order
C29_Witness ==
  \E j \in JobIds :
    /\ queue_log.enq = <<JoinColon(<<j>>, <<VidName[2]>>), JoinColon(<<j>>, <<VidName[1]>>)>>
    /\ queue_log.deq = queue_log.enq

\* the progress field of a stored download record, where it has one (the
\* 14th token of the dict text, after the key 'progress')
HasProgress(rec) == Len(rec) >= 14 /\ rec[11] = "progress"
DlProgress(rec) == CHOOSE n \in 0..(100 * MaxBody) : ToString(n) = rec[14]

\* C30: the progress recorded for a VideoTask is an integer in 0..100, it is
\* 100 when the task is completed, and it does not decrease from one record
\* of the task as downloading to the next.
C30_ProgressPercent ==
  /\ [](\A j \in JobIds : \A v \in Videos :
          HasProgress(downloads[j][v])
            => /\ downloads[j][v][14] \in {ToString(n) : n \in 0..100}
               /\ DlStatus(downloads[j][v]) = "completed"
                    => DlProgress(downloads[j][v]) = 100)
  /\ [][\A j \in JobIds : \A v \in Videos :
          (/\ DlStatus(downloads[j][v]) = "downloading"
           /\ DlStatus(downloads'[j][v]) = "downloading")
            => DlProgress(downloads'[j][v]) >= DlProgress(downloads[j][v])]_vars

\* the tasks of a job whose last record written by update_download_status
\* carries the status
LastWritten(j, status) ==
  {v \in Videos : downloads[j][v] # <<>> /\ DlStatus(downloads[j][v]) = status}

\* C31: get_job_stats(job_id) returns as completed the number of the job's
\* tasks whose last written status is completed, as failed the number whose
\* last written status is failed, and as in_progress the number of the others
\* that have a record.
C31_StatsCountRecords ==
  \A j \in JobIds :
    /\ get_job_stats(j).completed = Cardinality(LastWritten(j, "completed"))
    /\ get_job_stats(j).failed = Cardinality(LastWritten(j, "failed"))
    /\ get_job_stats(j).in_progress = Cardinality(LastWritten(j, "downloading"))

\* the flush signals queued for a job, and the tasks of the job between
\* add_pending_video and the threshold check that follows it
SignalsQueued(j) == Cardinality({i \in 1..Len(send_videos_queue) : send_videos_queue[i] = j})
BetweenAddAndCheck(j) == {t \in Tasks : t[1] = j /\ task_pc[t] = "pending_count"}

\* C32: whenever no download task of a job is between its add to the pending
\* delivery queue and its threshold check, the job's pending queue holds at
\* most FlushThreshold - 1 entries more than BatchCount for each flush signal
\* queued for the job.
C32_SignalsDrainPending ==
  \A j \in JobIds :
    BetweenAddAndCheck(j) = {}
      => Len(pending_videos[j]) <= (FlushThreshold - 1) + BatchCount * SignalsQueued(j)

\* C33: the two parts of the global download index agree for every reader:
\* every video_id a reader finds in the set downloaded_videos has a path in
\* video_files, and a task that found its id in the set never goes on from
\* the path lookup to the download branch.
C33_IndexConsistent ==
  /\ [](\A v \in downloaded_videos : video_files[v] # NoPath)
  /\ [][\A t \in Tasks :
          task_pc[t] = "get_video_filepath" => task_pc'[t] # "set_downloading"]_vars

\* C34: a flush signal popped for a job that has no subscriber mapping has no
\* effect on the job's data: the signal leaves the queue, and the pending
\* delivery queues, every delivery set, the job records and the task records
\* are unchanged by that step, and no flush is started.
C34_UnmappedSignalNoEffect ==
  [][(/\ bw.pc = "brpop"
      /\ send_videos_queue # <<>>
      /\ Len(send_videos_queue') < Len(send_videos_queue)
      /\ job_chat_mapping[RPeek(send_videos_queue)] = NoChat)
     => /\ send_videos_queue' = RPop(send_videos_queue)
        /\ pending_videos' = pending_videos
        /\ sent_videos' = sent_videos
        /\ jobs' = jobs
        /\ downloads' = downloads
        /\ bw' = bw
        /\ flushes' = flushes]_vars

\* every download of the unmapped job is done, its signals were all popped
\* and its five entries are still pending
C34_Witness ==
  /\ job_chat_mapping[BatchJob] = NoChat
  /\ \A v \in PendingVideos : task_pc[<<BatchJob, v>>] = "done"
  /\ send_videos_queue = <<>>
  /\ Len(pending_videos[BatchJob]) = PendingN
  /\ flushes[BatchJob] = <<>>

\* C35: the admission limiter leaks no permit: in every state the permits
\* taken are those of the tasks inside process_download, whichever way the
\* tasks before them left it (video data missing, reuse, download, exception,
\* exception in the failure handler), and never more than the limit.
C35_NoPermitLeak ==
  /\ PermitsHeld = Cardinality(InFlight)
  /\ \A t \in Tasks : task_loc[t].permit <=> t \in InFlight
  /\ PermitsHeld <= MaxConcurrentDownloads

\* all four tasks are over and no permit is taken: one had no video data,
\* one reused the stored file, one was stored failed by the except branch and
\* one left through an exception raised in the except branch (no record)
C35_Witness ==
  /\ \A t \in Tasks : task_pc[t] = "done"
  /\ downloads[JobName[2]][VidName[2]] = <<>>
  /\ \E j \in JobIds : /\ downloads[j][VidName[1]] # <<>>
                        /\ Contains(downloads[j][VidName[1]], <<"True">>)
  /\ \E j \in JobIds : /\ downloads[j][VidName[2]] # <<>>
                        /\ DlStatus(downloads[j][VidName[2]]) = "failed"
  /\ \E j \in JobIds : downloads[j][VidName[1]] = <<>>
  /\ PermitsHeld = 0

\* C36: the unified Video Source switches variant in one direction only.
\* Once current_method is "http" it stays "http" and no later operation
\* calls the Playwright variant; an operation whose Playwright call ends in
\* an error that matches no blocking keyword raises with current_method
\* unchanged and without a call of the HTTP variant.
LastCall == unified'.log[Len(unified'.log)]
C36_OneWaySwitch ==
  [][/\ current_method = "http"
        => /\ current_method' = "http"
           /\ (unified'.log # unified.log => "playwright" \notin Range(LastCall.called))
     /\ (/\ unified'.log # unified.log
         /\ LastCall.op # "get_video_download_url"
         /\ LastCall.pw # <<>>
         /\ ~is_blocked(LastCall.pw))
        => /\ current_method' = current_method
           /\ LastCall.raised
           /\ "http" \notin Range(LastCall.called)]_vars

\* three operations: the first raised a Playwright error that is no blocking
\* one and left the method, the second switched to HTTP on a blocking error,
\* the third ran on HTTP alone
C36_Witness ==
  /\ Len(unified.log) = 3
  /\ unified.log[1].before = "playwright"
  /\ unified.log[1].pw = MsgPwOther
  /\ unified.log[1].called = <<"playwright">>
  /\ unified.log[2].before = "playwright"
  /\ unified.log[2].pw = MsgPwDetection
  /\ unified.log[2].called = <<"playwright", "http">>
  /\ unified.log[3].before = "http"
  /\ unified.log[3].called = <<"http">>
  /\ current_method = "http"

\* C37: one call of get_user_profile or scrape_user_videos of the Playwright
\* variant makes at most 3 attempts (retry_count 0, 1, 2): it has raised after
\* exactly 3 when every attempt failed with a detection error, and after the
\* first attempt when that one failed with an error that matches no
\* detection keyword; no attempt is made once it has returned or raised.
AllDetection == \A i \in 1..Len(retry.errors) : is_detection(retry.op, retry.errors[i])
C37_RetryBounded ==
  /\ retry.attempts <= max_retries + 1
  /\ retry.retry_count <= max_retries
  /\ retry.pc \in {"attempt", "sleep"} => retry.attempts = retry.retry_count + (IF retry.pc = "sleep" THEN 1 ELSE 0)
  /\ retry.pc = "sleep" => retry.attempts <= max_retries
  /\ (retry.pc = "raised" /\ AllDetection)
       => /\ retry.attempts = max_retries + 1
          /\ retry.raised = BotDetectionPrefix \o retry.errors[max_retries + 1]
  /\ (retry.pc = "raised" /\ ~is_detection(retry.op, retry.errors[1]))
       => /\ retry.attempts = 1
          /\ retry.raised = retry.errors[1]

\* scrape_user_videos has raised after three attempts that all found 0 videos
C37_Witness ==
  /\ retry.pc = "raised"
  /\ retry.op = "scrape_user_videos"
  /\ retry.errors = <<MsgZeroVideos, MsgZeroVideos, MsgZeroVideos>>
  /\ retry.attempts = 3

\* C38: after add_videos(username, ids) the count returned is the number of
\* distinct ids that were not cached before, the cached ids are the old ones
\* united with ids, no id is stored twice and total_videos is the number of
\* stored ids; a second call with the same ids returns 0 and leaves the
\* cache content unchanged.
C38_AddVideos ==
  /\ [](cache.calls > 0
        => /\ cache.returned = Cardinality(Range(cache.ids) \ Range(cache.before))
           /\ Range(cache.video_ids) = Range(cache.before) \cup Range(cache.ids)
           /\ NoDup(cache.video_ids)
           /\ cache.total_videos = Cardinality(Range(cache.video_ids)))
  /\ [][(cache.calls > 0 /\ cache'.calls = cache.calls + 1 /\ cache'.ids = cache.ids)
          => /\ cache'.returned = 0
             /\ cache'.video_ids = cache.video_ids
             /\ cache'.total_videos = cache.total_videos]_vars

====
